---- MODULE Spec2Model ----
(***************************************************************************)
(* Raw-transaction RPC handlers of src/src/rpcrawtransaction.cpp:          *)
(* sendrawtransaction (the submission gateway), signrawtransaction (the    *)
(* signing engine), createrawtransaction (the builder), createtoken and    *)
(* inittoken (the token protocol), each as a sequence of steps over the    *)
(* shared node state (mempool, pcoinsTip), and the byte encoding of a      *)
(* transaction with its decode in decoderawtransaction,                    *)
(* sendrawtransaction and signrawtransaction.                              *)
(***************************************************************************)
EXTENDS Integers, Sequences, FiniteSets, TLC

VARIABLES
    mempool,        \* txids held by the pending pool (mempool.mapTx)
    pcoinsTip,      \* confirmed coins: txid -> CCoins, for the txids that have coins
    sPc,            \* sendrawtransaction: position of the request
    sRaw,           \* sendrawtransaction: params[0] as decoded by "ssData >> tx"
    fOverrideFees,  \* sendrawtransaction: params[1]
    hashTx,         \* sendrawtransaction: tx.GetHash()
    fHaveMempool,   \* sendrawtransaction: local
    fHaveChain,     \* sendrawtransaction: local
    state,          \* sendrawtransaction: CValidationState filled by AcceptToMemoryPool
    sAdmit,         \* what AcceptToMemoryPool returned to this request
    sPre,           \* where hashTx was when the request started
    sCalls,         \* collaborator calls made by the request, in order
    sResult,        \* the request's return value or the JSONRPCError it threw
    sLog,           \* finished requests, oldest first
    nBlocks,        \* blocks connected so far
    csMempool,      \* holder of the lock mempool.cs: "free" or "sign"
    gPc,            \* signrawtransaction: position of the request
    gRaw,           \* signrawtransaction: params[0] as decoded by the "ssData >> tx" loop
    txVariants,     \* signrawtransaction: the decoded variants
    mergedTx,       \* signrawtransaction: the merge target
    fComplete,      \* signrawtransaction: local
    view,           \* signrawtransaction: CCoinsViewCache view (cacheCoins and backend)
    nWarm,          \* inputs fetched so far by the warming pass
    fGivenKeys,     \* signrawtransaction: local
    tempKeystore,   \* signrawtransaction: CBasicKeyStore tempKeystore
    keystoreRef,    \* signrawtransaction: the store the reference "keystore" is bound to
    prevTxs,        \* signrawtransaction: params[1], the hints not yet applied
    nHashType,      \* signrawtransaction: local
    fHashSingle,    \* signrawtransaction: local
    nInput,         \* signrawtransaction: the loop index i
    nVariant,       \* variants merged so far into input nInput
    prevPubKey,     \* signrawtransaction: locking script resolved for input nInput
    gParams,        \* params[1..3] as the request has read them so far
    gResult,        \* the request's return value or the error it threw
    bPc,            \* createrawtransaction: position of the request
    inputs,         \* createrawtransaction: the entries of params[0] visited so far
    sendTo,         \* createrawtransaction: the pairs of params[1] visited so far
    rawTx,          \* createrawtransaction: the transaction being built
    setAddress,     \* createrawtransaction: local
    bResult,        \* the request's return value or the error it threw
    cPc,            \* createtoken: position of the request
    cParams,        \* createtoken: the file at params[0], params[1], the digest computed
    cToken,         \* createtoken: what the request computed
    cPrev,          \* createtoken: cParams of the request before
    cResult,        \* createtoken: Object result
    mPc,            \* inittoken: position of the request
    mParams,        \* inittoken: params[0] and the file at params[1]
    inputtxid,      \* inittoken: local
    inputTransaction, \* inittoken: local
    nOutput,        \* inittoken: local
    token,          \* inittoken: what CreateToken computed
    mintTx,         \* inittoken: rawTx, then the transaction as signed
    mComplete,      \* fComplete of signrawtokentransaction
    mHash,          \* inittoken: hashTx
    mCalls,         \* collaborator calls made by inittoken, in order
    mResult,        \* inittoken: the return value or the error thrown
    dPc,            \* decode of params[0]: position of the request
    dHandler,       \* the handler decoding
    dEncoded,       \* the transaction a handler serialized into txData, if one did
    txData,         \* the bytes of params[0]
    ssData,         \* the stream over txData: the bytes not yet read
    decoded,        \* signrawtransaction: txVariants as the decode loop fills it
    dTx,            \* tx of a single decode, mergedTx of signrawtransaction
    dResult         \* the error the decode threw

world == <<mempool, pcoinsTip>>
svars == <<sPc, sRaw, fOverrideFees, hashTx, fHaveMempool, fHaveChain, state,
           sAdmit, sPre, sCalls, sResult, sLog, nBlocks>>
gvars == <<csMempool, gPc, gRaw, txVariants, mergedTx, fComplete, view, nWarm,
           fGivenKeys, tempKeystore, keystoreRef, prevTxs, nHashType, fHashSingle, nInput,
           nVariant, prevPubKey, gParams, gResult>>
bvars == <<bPc, inputs, sendTo, rawTx, setAddress, bResult>>
cvars == <<cPc, cParams, cToken, cPrev, cResult>>
mvars == <<mPc, mParams, inputtxid, inputTransaction, nOutput, token, mintTx, mComplete,
           mHash, mCalls, mResult>>
\* The variables of the handlers other than sendrawtransaction and
\* signrawtransaction.
dvars == <<dPc, dHandler, dEncoded, txData, ssData, decoded, dTx, dResult>>
xvars == <<bvars, cvars, mvars, dvars>>
vars == <<world, svars, gvars, xvars>>

(***************************************************************************)
(* Bounds                                                                  *)
(***************************************************************************)
NumTx == 2
MaxRequests == 2
MaxBlocks == 1

TxIds == 1..NumTx

(***************************************************************************)
(* Node state                                                              *)
(***************************************************************************)
PlausibleHeightLimit == 1000000000

Heights == {1, PlausibleHeightLimit - 1, PlausibleHeightLimit}

\* CTxOut(nValue, scriptPubKey); a locking script is known by its name
TxOut(v, script) == [nValue |-> v, scriptPubKey |-> script]

\* CTxOut(): the null output, which is also what a spent output becomes
NullTxOut == [nValue |-> -1, scriptPubKey |-> ""]

\* The outputs of the transaction with identifier t.
OutputsOf(t) ==
    IF t = 1 THEN <<TxOut(5, "PKH1"), TxOut(7, "MS23")>>
    ELSE IF t = 2 THEN <<TxOut(3, "SH_MS23")>>
    ELSE <<TxOut(1, "PKH2")>>

\* CCoins as default-constructed by "CCoins coins;"
EmptyCoins == [vout |-> <<>>, nHeight |-> 0]

\* CCoins::IsAvailable(n); n counts from 0
IsAvailable(coins, n) ==
    n >= 0 /\ n < Len(coins.vout) /\ coins.vout[n + 1].nValue # -1

\* view.GetCoins(txid, coins) on the confirmed view
GetCoinsTip(tip, txid) ==
    IF txid \in DOMAIN tip THEN [ok |-> TRUE, coins |-> tip[txid]]
    ELSE [ok |-> FALSE, coins |-> EmptyCoins]

\* mempool.exists(hash)
MempoolExists(pool, hash) == hash \in pool

(***************************************************************************)
(* signrawtransaction: the request's locals before it starts               *)
(***************************************************************************)
EmptyTx == [nVersion |-> 1, vin |-> <<>>, vout |-> <<>>, nLockTime |-> 0]

EmptyKeyStore == [keys |-> {}, scripts |-> {}]

\* CCoinsViewCache view(viewDummy): an empty cache over the dummy backend
NewView == [cacheCoins |-> <<>>, base |-> "viewDummy"]

NoParams == <<>>

NoSignResult ==
    [error |-> "", message |-> "", returned |-> FALSE, tx |-> EmptyTx, complete |-> FALSE]

NoBuildResult == [error |-> "", message |-> "", returned |-> FALSE, tx |-> EmptyTx]

InitBuildLocals ==
    /\ bPc = "idle"
    /\ inputs = <<>>
    /\ sendTo = <<>>
    /\ rawTx = EmptyTx
    /\ setAddress = {}
    /\ bResult = NoBuildResult

\* The handlers that are not running hold their initial locals.
InitSignLocals ==
    /\ csMempool = "free"
    /\ gPc = "idle"
    /\ gRaw = [ok |-> FALSE, txs |-> <<>>]
    /\ txVariants = <<>>
    /\ mergedTx = EmptyTx
    /\ fComplete = TRUE
    /\ view = NewView
    /\ nWarm = 0
    /\ fGivenKeys = FALSE
    /\ tempKeystore = EmptyKeyStore
    /\ keystoreRef = "tempKeystore"
    /\ prevTxs = <<>>
    /\ nHashType = 0
    /\ fHashSingle = FALSE
    /\ nInput = 0
    /\ nVariant = 0
    /\ prevPubKey = ""
    /\ gParams = NoParams
    /\ gResult = NoSignResult

(***************************************************************************)
(* sendrawtransaction                                                      *)
(***************************************************************************)
NoResult == [error |-> "", message |-> "", value |-> "", returned |-> FALSE]

\* CHashWriter(1, 1) over the bytes written, GetHash(): the digest, one per
\* byte sequence
HashOf(bytes) == [preimage |-> bytes]

NoToken ==
    [filestring |-> <<>>, hash |-> HashOf(<<>>), key |-> 0, signature |-> <<>>,
     id |-> "", pub |-> "", priv |-> ""]

NoCall == [file |-> <<>>, previousTxId |-> "", hash |-> HashOf(<<>>), made |-> FALSE]

InitCommitLocals ==
    /\ cPc = "idle"
    /\ cParams = NoCall
    /\ cToken = NoToken
    /\ cPrev = NoCall
    /\ cResult = <<>>

NoFunding == [txid |-> 0, vout |-> <<>>]

InitMintLocals ==
    /\ mPc = "idle"
    /\ mParams = [address |-> "", file |-> <<>>]
    /\ inputtxid = 0
    /\ inputTransaction = NoFunding
    /\ nOutput = 0
    /\ token = NoToken
    /\ mintTx = EmptyTx
    /\ mComplete = TRUE
    /\ mHash = 0
    /\ mCalls = <<>>
    /\ mResult = NoResult

InitCodecLocals ==
    /\ dPc = "idle"
    /\ dHandler = ""
    /\ dEncoded = <<>>
    /\ txData = <<>>
    /\ ssData = <<>>
    /\ decoded = <<>>
    /\ dTx = EmptyTx
    /\ dResult = NoResult

InitOthers == InitBuildLocals /\ InitCommitLocals /\ InitMintLocals /\ InitCodecLocals

JSONRPCError(code, msg) ==
    [error |-> code, message |-> msg, value |-> "", returned |-> FALSE]

Return(v) == [error |-> "", message |-> "", value |-> v, returned |-> TRUE]

HexDigit(n) == SubSeq("0123456789abcdef", n + 1, n + 1)

\* uint256::GetHex, on identifiers one byte wide
GetHex(h) == HexDigit((h \div 16) % 16) \o HexDigit(h % 16)

\* CTransaction::GetHash: the decoded transaction is known by its identifier
GetHash(tx) == tx

SubmitInputs ==
    {[ok |-> TRUE, tx |-> t] : t \in TxIds} \cup {[ok |-> FALSE, tx |-> 0]}

ValidState == [mode |-> "valid", code |-> 0, reason |-> ""]

RejectCodes == {16, 66}
RejectReasons == {"bad-txns-inputs-spent", "insufficient priority"}

\* What AcceptToMemoryPool can leave in CValidationState when it returns false.
RejectStates(fRejectInsaneFee) ==
    [mode : {"invalid"}, code : RejectCodes, reason : RejectReasons]
    \cup [mode : {"error"}, code : {0} \cup RejectCodes, reason : RejectReasons]
    \cup (IF fRejectInsaneFee THEN {ValidState} ELSE {})

Call(op, tx, flag) == [op |-> op, tx |-> tx, flag |-> flag]

InitSubmitLocals ==
    /\ sPc = "idle"
    /\ sRaw = [ok |-> FALSE, tx |-> 0]
    /\ fOverrideFees = FALSE
    /\ hashTx = 0
    /\ fHaveMempool = FALSE
    /\ fHaveChain = FALSE
    /\ state = ValidState
    /\ sAdmit = "none"
    /\ sPre = [inPool |-> FALSE, inChain |-> FALSE]
    /\ sCalls = <<>>
    /\ sResult = NoResult
    /\ sLog = <<>>
    /\ nBlocks = 0

\* The node before any request: every transaction is unknown, pending, or
\* confirmed with coins at some height; a confirmed one is not pending.
InitWorld ==
    \E pool \in SUBSET TxIds :
        \E tip \in SUBSET (TxIds \ pool) :
            \E height \in [tip -> Heights] :
                /\ mempool = pool
                /\ pcoinsTip = [t \in tip |-> [vout |-> OutputsOf(t), nHeight |-> height[t]]]

InitSubmit == InitWorld /\ InitSubmitLocals /\ InitSignLocals /\ InitOthers

\* params parsed: line 797-803
SubmitCall(raw, fOverride) ==
    /\ sPc \in {"idle", "done"}
    /\ Len(sLog) < MaxRequests
    /\ sPc' = "decode"
    /\ sRaw' = raw
    /\ fOverrideFees' = fOverride
    /\ hashTx' = 0
    /\ fHaveMempool' = FALSE
    /\ fHaveChain' = FALSE
    /\ state' = ValidState
    /\ sAdmit' = "none"
    /\ sPre' = IF raw.ok
               THEN [inPool |-> GetHash(raw.tx) \in mempool,
                     inChain |-> /\ GetHash(raw.tx) \in DOMAIN pcoinsTip
                                 /\ pcoinsTip[GetHash(raw.tx)].nHeight < PlausibleHeightLimit]
               ELSE [inPool |-> FALSE, inChain |-> FALSE]
    /\ sCalls' = <<>>
    /\ sResult' = NoResult
    /\ UNCHANGED <<gvars, xvars>>
    /\ UNCHANGED <<world, sLog, nBlocks>>

\* The request ends: by a throw or by the return statement.
Finish(result) ==
    /\ sPc' = "done"
    /\ sResult' = result
    /\ sLog' = Append(sLog, [tx |-> hashTx, result |-> result, admit |-> sAdmit])

\* "ssData >> tx" and tx.GetHash(): line 806-812
SubmitDecode ==
    /\ sPc = "decode"
    /\ IF sRaw.ok
       THEN /\ hashTx' = GetHash(sRaw.tx)
            /\ sPc' = "lookup"
            /\ UNCHANGED <<sResult, sLog>>
       ELSE /\ hashTx' = hashTx
            /\ Finish(JSONRPCError("RPC_DESERIALIZATION_ERROR", "TX decode failed"))
    /\ UNCHANGED <<gvars, xvars>>
    /\ UNCHANGED <<world, sRaw, fOverrideFees, fHaveMempool, fHaveChain, state,
                   sAdmit, sPre, sCalls, nBlocks>>

\* fHaveChain: line 817
HaveChain(tip, hash) ==
    GetCoinsTip(tip, hash).ok /\ GetCoinsTip(tip, hash).coins.nHeight < PlausibleHeightLimit

\* A pending identifier is refused like a confirmed one.
AfterLookup_RefusePending(haveMempool, haveChain) ==
    IF ~haveMempool /\ ~haveChain THEN "admit" ELSE "inchain"

\* Only the confirmed view is consulted before admission.
AfterLookup_ReadmitPending(haveMempool, haveChain) ==
    IF ~haveChain THEN "admit" ELSE "inchain"

\* The branch taken after the two lookups: line 818, 829
AfterLookup(haveMempool, haveChain) ==
    IF ~haveMempool /\ ~haveChain THEN "admit"
    ELSE IF haveChain THEN "inchain"
    ELSE "relay"

\* line 814-818
SubmitLookup ==
    /\ sPc = "lookup"
    /\ fHaveMempool' = MempoolExists(mempool, hashTx)
    /\ fHaveChain' = HaveChain(pcoinsTip, hashTx)
    /\ sPc' = AfterLookup(fHaveMempool', fHaveChain')
    /\ UNCHANGED <<gvars, xvars>>
    /\ UNCHANGED <<world, sRaw, fOverrideFees, hashTx, state, sAdmit, sPre, sCalls,
                   sResult, sLog, nBlocks>>

\* AcceptToMemoryPool(mempool, state, tx, false, NULL, !fOverrideFees): line 820-821
SubmitAdmit ==
    /\ sPc = "admit"
    /\ sCalls' = Append(sCalls, Call("Admit", hashTx, ~fOverrideFees))
    /\ \/ /\ mempool' = mempool \cup {hashTx}
          /\ state' = ValidState
          /\ sAdmit' = "accepted"
          /\ sPc' = "sync"
       \/ \E st \in RejectStates(~fOverrideFees) :
             /\ mempool' = mempool
             /\ state' = st
             /\ sAdmit' = "rejected"
             /\ sPc' = "rejected"
    /\ UNCHANGED <<gvars, xvars>>
    /\ UNCHANGED <<pcoinsTip, sRaw, fOverrideFees, hashTx, fHaveMempool, fHaveChain,
                   sPre, sResult, sLog, nBlocks>>

\* The observers are not told.
SyncWithWallets_Skipped(calls, hash) == calls

\* SyncWithWallets(hashTx, tx, NULL): line 822
SyncWithWallets(calls, hash) == Append(calls, Call("Notify", hash, FALSE))

SubmitSync ==
    /\ sPc = "sync"
    /\ sCalls' = SyncWithWallets(sCalls, hashTx)
    /\ sPc' = "relay"
    /\ UNCHANGED <<gvars, xvars>>
    /\ UNCHANGED <<world, sRaw, fOverrideFees, hashTx, fHaveMempool, fHaveChain,
                   state, sAdmit, sPre, sResult, sLog, nBlocks>>

\* Every rejection is reported as an invalid transaction.
RejectError_AlwaysRejected(st) ==
    JSONRPCError("RPC_TRANSACTION_REJECTED", ToString(st.code) \o ": " \o st.reason)

\* The error thrown for a rejected admission: line 824-827
RejectError(st) ==
    IF st.mode = "invalid"
    THEN JSONRPCError("RPC_TRANSACTION_REJECTED", ToString(st.code) \o ": " \o st.reason)
    ELSE JSONRPCError("RPC_TRANSACTION_ERROR", st.reason)

SubmitRejected ==
    /\ sPc = "rejected"
    /\ Finish(RejectError(state))
    /\ UNCHANGED <<gvars, xvars>>
    /\ UNCHANGED <<world, sRaw, fOverrideFees, hashTx, fHaveMempool, fHaveChain,
                   state, sAdmit, sPre, sCalls, nBlocks>>

\* line 829-831
SubmitInChain ==
    /\ sPc = "inchain"
    /\ Finish(JSONRPCError("RPC_TRANSACTION_ALREADY_IN_CHAIN",
                           "transaction already in block chain"))
    /\ UNCHANGED <<gvars, xvars>>
    /\ UNCHANGED <<world, sRaw, fOverrideFees, hashTx, fHaveMempool, fHaveChain,
                   state, sAdmit, sPre, sCalls, nBlocks>>

\* RelayTransaction(tx, hashTx): line 832
RelayTransaction(calls, hash) == Append(calls, Call("Relay", hash, FALSE))

SubmitRelay ==
    /\ sPc = "relay"
    /\ sCalls' = RelayTransaction(sCalls, hashTx)
    /\ sPc' = "return"
    /\ UNCHANGED <<gvars, xvars>>
    /\ UNCHANGED <<world, sRaw, fOverrideFees, hashTx, fHaveMempool, fHaveChain,
                   state, sAdmit, sPre, sResult, sLog, nBlocks>>

\* return hashTx.GetHex(): line 834
SubmitReturn ==
    /\ sPc = "return"
    /\ Finish(Return(GetHex(hashTx)))
    /\ UNCHANGED <<gvars, xvars>>
    /\ UNCHANGED <<world, sRaw, fOverrideFees, hashTx, fHaveMempool, fHaveChain,
                   state, sAdmit, sPre, sCalls, nBlocks>>

\* Between two requests a block confirms a pending transaction: it leaves the
\* pending pool and its coins appear in the confirmed view.
ConfirmBlock ==
    /\ sPc \in {"idle", "done"}
    /\ nBlocks < MaxBlocks
    /\ \E t \in mempool :
          /\ mempool' = mempool \ {t}
          /\ pcoinsTip' = (t :> [vout |-> OutputsOf(t), nHeight |-> 1 + nBlocks]) @@ pcoinsTip
    /\ nBlocks' = nBlocks + 1
    /\ UNCHANGED <<gvars, xvars>>
    /\ UNCHANGED <<sPc, sRaw, fOverrideFees, hashTx, fHaveMempool, fHaveChain, state,
                   sAdmit, sPre, sCalls, sResult, sLog>>

SubmitNext ==
    \/ \E raw \in SubmitInputs, f \in BOOLEAN : SubmitCall(raw, f)
    \/ SubmitDecode
    \/ SubmitLookup
    \/ SubmitAdmit
    \/ SubmitSync
    \/ SubmitRejected
    \/ SubmitInChain
    \/ SubmitRelay
    \/ SubmitReturn
    \/ ConfirmBlock

SpecSubmit == InitSubmit /\ [][SubmitNext]_vars

(***************************************************************************)
(* Scripts, signatures and the script black boxes used by the signer       *)
(***************************************************************************)
KeyIds == {1, 2, 3}

\* The locking scripts of the model, by name; "" is the script of a null CTxOut.
ScriptNames == {"PKH1", "PKH2", "MS23", "SH_MS23", "DATA"}

\* Solver(scriptPubKey, typeRet, vSolutionsRet): shape, public keys, required count
Shape(s) ==
    CASE s = "PKH1" -> [type |-> "pubkeyhash", keys |-> <<1>>, req |-> 1, redeem |-> ""]
      [] s = "PKH2" -> [type |-> "pubkeyhash", keys |-> <<2>>, req |-> 1, redeem |-> ""]
      [] s = "MS23" -> [type |-> "multisig", keys |-> <<1, 2, 3>>, req |-> 2, redeem |-> ""]
      [] s = "SH_MS23" -> [type |-> "scripthash", keys |-> <<>>, req |-> 1, redeem |-> "MS23"]
      [] OTHER -> [type |-> "nonstandard", keys |-> <<>>, req |-> 0, redeem |-> ""]

\* CScript::IsPayToScriptHash
IsPayToScriptHash(s) == Shape(s).type = "scripthash"

\* Elements pushed by an unlocking script.
Sig(k, nIn, ht) == [t |-> "sig", key |-> k, nIn |-> nIn, ht |-> ht, script |-> ""]
Pub(k) == [t |-> "pub", key |-> k, nIn |-> 0, ht |-> 0, script |-> ""]
Op0 == [t |-> "op0", key |-> 0, nIn |-> 0, ht |-> 0, script |-> ""]
PushScript(s) == [t |-> "script", key |-> 0, nIn |-> 0, ht |-> 0, script |-> s]

\* A signature checks against public key k for input i of the transaction
\* being signed when it was made by k over that input.
CheckSig(el, k, i) == el.t = "sig" /\ el.key = k /\ el.nIn = i

Min(a, b) == IF a < b THEN a ELSE b

Front(q) == SubSeq(q, 1, Len(q) - 1)

Last(q) == q[Len(q)]

\* The sequence of n copies of Op0.
Padding(n) == [j \in 1..n |-> Op0]

\* Sign1/SignN: one signature per public key the store holds, in public-key
\* order, until the required count is reached.
SignN(keystore, keys, req, i, ht) ==
    LET held == SelectSeq(keys, LAMBDA k : k \in keystore.keys)
        used == SubSeq(held, 1, Min(req, Len(held)))
    IN  [j \in 1..Len(used) |-> Sig(used[j], i, ht)]

\* Solver(keystore, scriptPubKey, hash, nHashType, scriptSigRet, whichTypeRet):
\* what it leaves in scriptSigRet, and whether it solved the script.
SignStep(keystore, s, i, ht) ==
    LET sh == Shape(s) IN
    CASE sh.type = "pubkeyhash" ->
            IF sh.keys[1] \in keystore.keys
            THEN [ok |-> TRUE, sig |-> <<Sig(sh.keys[1], i, ht), Pub(sh.keys[1])>>]
            ELSE [ok |-> FALSE, sig |-> <<>>]
      [] sh.type = "multisig" ->
            LET sigs == SignN(keystore, sh.keys, sh.req, i, ht)
            IN  [ok |-> Len(sigs) = sh.req, sig |-> <<Op0>> \o sigs]
      [] sh.type = "scripthash" ->
            IF sh.redeem \in keystore.scripts
            THEN [ok |-> TRUE, sig |-> <<PushScript(sh.redeem)>>]
            ELSE [ok |-> FALSE, sig |-> <<>>]
      [] OTHER -> [ok |-> FALSE, sig |-> <<>>]

\* SignSignature(keystore, fromPubKey, txTo, nIn, nHashType): the unlocking
\* script it leaves in txTo.vin[nIn]; its return value is not used by the caller.
SignSignature(keystore, s, i, ht) ==
    LET r == SignStep(keystore, s, i, ht) IN
    IF r.ok /\ Shape(s).type = "scripthash"
    THEN SignStep(keystore, Shape(s).redeem, i, ht).sig \o <<PushScript(Shape(s).redeem)>>
    ELSE r.sig

\* VerifyScript for a locking script that is not pay-to-script-hash.
VerifyPlain(scriptSig, s, i) ==
    LET sh == Shape(s) IN
    CASE sh.type = "pubkeyhash" ->
            /\ Len(scriptSig) = 2
            /\ CheckSig(scriptSig[1], sh.keys[1], i)
            /\ scriptSig[2] = Pub(sh.keys[1])
      [] sh.type = "multisig" ->
            /\ Len(scriptSig) = sh.req + 1
            /\ \E pos \in [1..sh.req -> 1..Len(sh.keys)] :
                  /\ \A a, b \in 1..sh.req : a < b => pos[a] < pos[b]
                  /\ \A a \in 1..sh.req : CheckSig(scriptSig[a + 1], sh.keys[pos[a]], i)
      [] OTHER -> FALSE

\* VerifyScript(scriptSig, scriptPubKey, txTo, nIn,
\*              SCRIPT_VERIFY_P2SH | SCRIPT_VERIFY_STRICTENC, 0)
VerifyScript(scriptSig, s, i) ==
    IF Shape(s).type = "scripthash"
    THEN /\ Len(scriptSig) >= 1
         /\ Last(scriptSig) = PushScript(Shape(s).redeem)
         /\ VerifyPlain(Front(scriptSig), Shape(s).redeem, i)
    ELSE VerifyPlain(scriptSig, s, i)

\* The elements an unlocking script leaves on the stack, empty ones dropped.
StackOf(scriptSig) == {scriptSig[j] : j \in {x \in 1..Len(scriptSig) : scriptSig[x].t # "op0"}}

\* CombineMultisig: the distinct signatures of both scripts, one per public
\* key, in public-key order, up to the required count, padded with OP_0.
CombineMultisig(keys, req, i, sig1, sig2) ==
    LET all == StackOf(sig1) \cup StackOf(sig2)
        have == SelectSeq(keys, LAMBDA k : \E e \in all : CheckSig(e, k, i))
        used == SubSeq(have, 1, Min(req, Len(have)))
    IN  <<Op0>> \o [j \in 1..Len(used) |-> CHOOSE e \in all : CheckSig(e, used[j], i)]
               \o Padding(req - Len(used))

\* CombineSignatures for a locking script that is not pay-to-script-hash.
CombinePlain(s, i, sig1, sig2) ==
    LET sh == Shape(s) IN
    CASE sh.type = "multisig" -> CombineMultisig(sh.keys, sh.req, i, sig1, sig2)
      [] sh.type = "pubkeyhash" ->
            IF VerifyPlain(sig1, s, i) THEN sig1
            ELSE IF VerifyPlain(sig2, s, i) THEN sig2
            ELSE IF sig1 = <<>> THEN sig2 ELSE sig1
      [] OTHER -> IF Len(sig1) >= Len(sig2) THEN sig1 ELSE sig2

\* CombineSignatures(scriptPubKey, txTo, nIn, scriptSig1, scriptSig2)
CombineSignatures(s, i, sig1, sig2) ==
    IF Shape(s).type = "scripthash"
    THEN IF sig1 = <<>> \/ Last(sig1).t = "op0" THEN sig2
         ELSE IF sig2 = <<>> \/ Last(sig2).t = "op0" THEN sig1
         ELSE IF Last(sig1).t = "script"
              THEN CombinePlain(Last(sig1).script, i, Front(sig1), Front(sig2))
                       \o <<Last(sig1)>>
              ELSE IF Len(sig1) >= Len(sig2) THEN sig1 ELSE sig2
    ELSE CombinePlain(s, i, sig1, sig2)


(***************************************************************************)
(* The resolved view: a CCoinsViewCache over a switchable backend          *)
(***************************************************************************)
\* CCoins(tx, MEMPOOL_HEIGHT): the coins of a pending transaction
MempoolCoins(t) == [vout |-> OutputsOf(t), nHeight |-> 2147483647]

\* GetCoins of the cache's backend: viewDummy holds nothing; viewMempool
\* answers from the confirmed view, then from the pending pool.
BaseGetCoins(base, tip, pool, txid) ==
    IF base = "viewMempool" /\ txid \in DOMAIN tip
    THEN [ok |-> TRUE, coins |-> tip[txid]]
    ELSE IF base = "viewMempool" /\ txid \in pool
    THEN [ok |-> TRUE, coins |-> MempoolCoins(txid)]
    ELSE [ok |-> FALSE, coins |-> EmptyCoins]

\* view.GetCoins(txid, coins): answered from the cache, else fetched from the
\* backend and kept in the cache; coins is left untouched when it fails.
ViewGetCoins(v, tip, pool, txid) ==
    IF txid \in DOMAIN v.cacheCoins
    THEN [ok |-> TRUE, coins |-> v.cacheCoins[txid], view |-> v]
    ELSE LET r == BaseGetCoins(v.base, tip, pool, txid) IN
         IF r.ok
         THEN [ok |-> TRUE, coins |-> r.coins,
               view |-> [v EXCEPT !.cacheCoins = (txid :> r.coins) @@ @]]
         ELSE [ok |-> FALSE, coins |-> EmptyCoins, view |-> v]

\* The cache is left with the one entry set.
ViewSetCoins_Replaces(v, txid, coins) == [v EXCEPT !.cacheCoins = (txid :> coins)]

\* view.SetCoins(txid, coins)
ViewSetCoins(v, txid, coins) == [v EXCEPT !.cacheCoins = (txid :> coins) @@ @]

\* The backend stays the pool-backed view whatever is asked for.
ViewSetBackend_Mempool(v, base) == [v EXCEPT !.base = "viewMempool"]

\* view.SetBackend(backend)
ViewSetBackend(v, base) == [v EXCEPT !.base = base]

(***************************************************************************)
(* signrawtransaction: parameters                                          *)
(***************************************************************************)
SIGHASH_ALL == 1
SIGHASH_NONE == 2
SIGHASH_SINGLE == 3
SIGHASH_ANYONECANPAY == 128

\* a | b and a & ~b on non-negative integers
RECURSIVE BitOr(_, _)
BitOr(a, b) ==
    IF a = 0 /\ b = 0 THEN 0
    ELSE (IF a % 2 = 1 \/ b % 2 = 1 THEN 1 ELSE 0) + 2 * BitOr(a \div 2, b \div 2)

RECURSIVE BitAndNot(_, _)
BitAndNot(a, b) ==
    IF a = 0 THEN 0
    ELSE (IF a % 2 = 1 /\ b % 2 = 0 THEN 1 ELSE 0) + 2 * BitAndNot(a \div 2, b \div 2)

\* CTxIn(COutPoint(hash, n), scriptSig); nSequence is the largest unsigned
\* 32-bit value, kept as its two 16-bit halves
TxIn(hash, n, scriptSig) ==
    [prevout |-> [hash |-> hash, n |-> n], scriptSig |-> scriptSig,
     nSequence |-> [hi |-> 65535, lo |-> 65535]]

Tx(vin, vout) == [nVersion |-> 1, vin |-> vin, vout |-> vout, nLockTime |-> 0]

MaxIn == 2
MaxVariants == 2

\* The inputs a decoded merge target may hold at index n (from 0): spending
\* the pay-to-key-hash or the multisig output of transaction 1, or an output
\* of transaction 2 carrying a signature by key 2.
InputChoices(n) ==
    {TxIn(1, 0, <<>>), TxIn(1, 1, <<>>),
     TxIn(2, 0, <<Sig(2, n, SIGHASH_ALL), Pub(2)>>)}

VinChoices ==
    UNION {{q \in [1..len -> UNION {InputChoices(n) : n \in 0..(MaxIn - 1)}] :
                \A j \in 1..len : q[j] \in InputChoices(j - 1)} : len \in 0..MaxIn}

VoutChoices == {<<>>, <<TxOut(4, "PKH2")>>}

Targets == {Tx(vin, vout) : vin \in VinChoices, vout \in VoutChoices}

\* A variant of tx that holds only its first m inputs.
Truncated(tx, m) == [tx EXCEPT !.vin = SubSeq(tx.vin, 1, m)]

\* A transaction of version 2 with a lock time, whose inputs carry sequence
\* numbers of their own: the first spends the pay-to-key-hash output of
\* transaction 1, the second an output of transaction 2.
Versioned ==
    [nVersion |-> 2,
     vin |-> <<[TxIn(1, 0, <<>>) EXCEPT !.nSequence = [hi |-> 0, lo |-> 5]],
               [TxIn(2, 0, <<Sig(2, 1, SIGHASH_ALL), Pub(2)>>)
                    EXCEPT !.nSequence = [hi |-> 65535, lo |-> 65534]]>>,
     vout |-> <<TxOut(4, "PKH2"), TxOut(0, "PKH1")>>,
     nLockTime |-> 7]

\* One transaction, or a transaction followed by a variant that lacks its
\* last input; the versioned transaction alone, or followed by a variant of
\* version 1 without lock time, outputs and sequence numbers.
GeneralLists ==
    {<<tx>> : tx \in Targets}
    \cup {<<tx, Truncated(tx, Len(tx.vin) - 1)>> :
              tx \in {t \in Targets : t.vout # <<>> /\ t.vin # <<>>}}
    \cup {<<Versioned>>,
           <<Versioned, Tx(<<TxIn(1, 0, <<>>), TxIn(2, 0, <<>>)>>, <<>>)>>}

\* Unlocking scripts another signer may have left on a 2-of-3 multisig input 0.
MultisigScriptSigs ==
    {<<>>, <<Op0, Sig(1, 0, SIGHASH_ALL)>>, <<Op0, Sig(3, 0, SIGHASH_NONE)>>,
     <<Op0, Sig(2, 1, SIGHASH_ALL)>>}

MultisigTx(scriptSig) == Tx(<<TxIn(1, 1, scriptSig)>>, <<TxOut(4, "PKH2")>>)

\* Variants of one transaction that spends the multisig output of transaction 1.
MultisigLists ==
    UNION {[1..len -> {MultisigTx(sg) : sg \in MultisigScriptSigs}] : len \in 1..MaxVariants}

VariantLists == GeneralLists \cup MultisigLists

\* params[0] after the decode loop: the variants, or a failed decode.
SignInputs ==
    {[ok |-> TRUE, txs |-> q] : q \in VariantLists \cup {<<>>}}
    \cup {[ok |-> FALSE, txs |-> <<>>]}

NullParam == [given |-> FALSE, val |-> <<>>]
Param(v) == [given |-> TRUE, val |-> v]

\* params[2]: null or an array of base58 private keys
KeyParams ==
    {NullParam, Param(<<>>), Param(<<"K2">>), Param(<<"K3", "K1">>),
     Param(<<"bad">>), Param(<<"K1", "bad">>)}

\* CBitcoinSecret::SetString and GetKey
SetString(str) ==
    CASE str = "K1" -> [fGood |-> TRUE, key |-> 1]
      [] str = "K2" -> [fGood |-> TRUE, key |-> 2]
      [] str = "K3" -> [fGood |-> TRUE, key |-> 3]
      [] OTHER -> [fGood |-> FALSE, key |-> 0]

\* The persistent key store *pwalletMain.
WalletKeyStore == [keys |-> {1}, scripts |-> {}]

\* One element of params[1]
Hint(txid, vout, script, redeem) ==
    [isObj |-> TRUE, txid |-> txid, vout |-> vout, scriptPubKey |-> script,
     redeemScript |-> redeem]

NotAnObject ==
    [isObj |-> FALSE, txid |-> 0, vout |-> 0, scriptPubKey |-> "", redeemScript |-> ""]

\* params[1]: null or an array of previous outputs
HintParams ==
    {NullParam,
     Param(<<Hint(2, 0, "PKH2", "")>>),
     Param(<<Hint(2, 0, "SH_MS23", "MS23")>>),
     Param(<<Hint(2, 0, "SH_MS23", "")>>),
     Param(<<Hint(1, 0, "PKH2", "")>>),
     Param(<<Hint(1, 0, "PKH1", "")>>),
     Param(<<Hint(1, 2, "PKH2", "")>>),
     Param(<<Hint(1, -1, "PKH1", "")>>),
     Param(<<NotAnObject>>),
     Param(<<Hint(2, 0, "PKH2", ""), Hint(2, 0, "PKH2", "")>>),
     Param(<<Hint(2, 0, "PKH2", ""), Hint(2, 0, "PKH1", "")>>)}

\* params[3]: null or a string
SigHashParams ==
    {[given |-> FALSE, val |-> ""]}
    \cup {[given |-> TRUE, val |-> str] :
            str \in {"ALL", "NONE", "SINGLE", "ALL|ANYONECANPAY", "NONE|ANYONECANPAY",
                     "SINGLE|ANYONECANPAY", "all", "ANYONECANPAY"}}

\* static map<string, int> mapSigHashValues
mapSigHashValues ==
    ("ALL" :> SIGHASH_ALL)
    @@ ("ALL|ANYONECANPAY" :> BitOr(SIGHASH_ALL, SIGHASH_ANYONECANPAY))
    @@ ("NONE" :> SIGHASH_NONE)
    @@ ("NONE|ANYONECANPAY" :> BitOr(SIGHASH_NONE, SIGHASH_ANYONECANPAY))
    @@ ("SINGLE" :> SIGHASH_SINGLE)
    @@ ("SINGLE|ANYONECANPAY" :> BitOr(SIGHASH_SINGLE, SIGHASH_ANYONECANPAY))

\* The node when a signing request starts: transaction 1 is unknown, pending,
\* or confirmed with all its outputs unspent or with its first output spent;
\* no other transaction is known.
InitSignWorld ==
    \E place \in {"none", "pool", "tip", "spent"} :
        /\ mempool = IF place = "pool" THEN {1} ELSE {}
        /\ pcoinsTip =
              IF place = "tip" THEN (1 :> [vout |-> OutputsOf(1), nHeight |-> 1])
              ELSE IF place = "spent"
              THEN (1 :> [vout |-> [OutputsOf(1) EXCEPT ![1] = NullTxOut], nHeight |-> 1])
              ELSE <<>>

InitSign == InitSignWorld /\ InitSubmitLocals /\ InitSignLocals /\ InitOthers

(***************************************************************************)
(* signrawtransaction                                                      *)
(***************************************************************************)
SignError(code, msg) ==
    [error |-> code, message |-> msg, returned |-> FALSE, tx |-> EmptyTx,
     complete |-> FALSE]

\* The request ends by throwing a JSONRPCError.
SignThrow(code, msg) ==
    /\ gPc' = "done"
    /\ gResult' = SignError(code, msg)

\* A request arrives; every parameter passes RPCTypeCheck: line 592-595
SignCall(raw) ==
    /\ gPc = "idle"
    /\ gPc' = "decode"
    /\ gRaw' = raw
    /\ txVariants' = <<>>
    /\ mergedTx' = EmptyTx
    /\ fComplete' = TRUE
    /\ view' = NewView
    /\ nWarm' = 0
    /\ fGivenKeys' = FALSE
    /\ tempKeystore' = EmptyKeyStore
    /\ keystoreRef' = "tempKeystore"
    /\ prevTxs' = <<>>
    /\ nHashType' = 0
    /\ fHashSingle' = FALSE
    /\ nInput' = 0
    /\ nVariant' = 0
    /\ prevPubKey' = ""
    /\ gParams' = NoParams
    /\ gResult' = NoSignResult
    /\ UNCHANGED <<world, svars, xvars>>
    /\ UNCHANGED <<csMempool>>

\* The merge target is a clone of the last variant.
MergeTarget_Last(variants) == variants[Len(variants)]

\* "CMutableTransaction mergedTx(txVariants[0])": line 612
MergeTarget(variants) == variants[1]

\* The decode loop, the merge target and fComplete: line 596-615
SignDecode ==
    /\ gPc = "decode"
    /\ IF ~gRaw.ok
       THEN /\ SignThrow("RPC_DESERIALIZATION_ERROR", "TX decode failed")
            /\ UNCHANGED <<txVariants, mergedTx, fComplete>>
       ELSE IF gRaw.txs = <<>>
       THEN /\ SignThrow("RPC_DESERIALIZATION_ERROR", "Missing transaction")
            /\ UNCHANGED <<txVariants, mergedTx, fComplete>>
       ELSE /\ txVariants' = gRaw.txs
            /\ mergedTx' = MergeTarget(gRaw.txs)
            /\ fComplete' = TRUE
            /\ gPc' = "lock"
            /\ UNCHANGED gResult
    /\ UNCHANGED <<world, svars, xvars>>
    /\ UNCHANGED <<csMempool, gRaw, view, nWarm, fGivenKeys, tempKeystore, keystoreRef,
                   prevTxs, nHashType, fHashSingle, nInput, nVariant, prevPubKey,
                   gParams>>

\* LOCK(mempool.cs) and the switch to the db+mempool backend: line 618-624
SignLock ==
    /\ gPc = "lock"
    /\ csMempool = "free"
    /\ csMempool' = "sign"
    /\ view' = ViewSetBackend(NewView, "viewMempool")
    /\ nWarm' = 0
    /\ gPc' = "warm"
    /\ UNCHANGED <<world, svars, xvars>>
    /\ UNCHANGED <<gRaw, txVariants, mergedTx, fComplete, fGivenKeys, tempKeystore,
                   keystoreRef, prevTxs, nHashType, fHashSingle, nInput, nVariant,
                   prevPubKey, gParams, gResult>>

\* One round of the warming loop, view.GetCoins(prevHash, coins): line 626-630
SignWarm ==
    /\ gPc = "warm"
    /\ nWarm < Len(mergedTx.vin)
    /\ view' = ViewGetCoins(view, pcoinsTip, mempool,
                            mergedTx.vin[nWarm + 1].prevout.hash).view
    /\ nWarm' = nWarm + 1
    /\ UNCHANGED <<world, svars, xvars>>
    /\ UNCHANGED <<csMempool, gPc, gRaw, txVariants, mergedTx, fComplete, fGivenKeys,
                   tempKeystore, keystoreRef, prevTxs, nHashType, fHashSingle, nInput,
                   nVariant, prevPubKey, gParams, gResult>>

\* The lock is let go without being released.
LeaveLockScope_StillHeld(cs) == cs

\* The scope of LOCK(mempool.cs) ends: line 633
LeaveLockScope(cs) == "free"

\* Back to the dummy backend and out of the locked scope: line 632-633
SignUnlock ==
    /\ gPc = "warm"
    /\ nWarm = Len(mergedTx.vin)
    /\ view' = ViewSetBackend(view, "viewDummy")
    /\ csMempool' = LeaveLockScope(csMempool)
    /\ gPc' = "keys"
    /\ UNCHANGED <<world, svars, xvars>>
    /\ UNCHANGED <<gRaw, txVariants, mergedTx, fComplete, nWarm, fGivenKeys,
                   tempKeystore, keystoreRef, prevTxs, nHashType, fHashSingle, nInput,
                   nVariant, prevPubKey, gParams, gResult>>

\* params[2] is read: the given keys go to tempKeystore, or the wallet must
\* be unlocked (EnsureWalletIsUnlocked dereferences pwalletMain): line 635-654.
\* The wallet's answer is kept in gParams["wallet"] when it was asked.
SignKeys(p) ==
    /\ gPc = "keys"
    /\ IF p.given
       THEN /\ fGivenKeys' = TRUE
            /\ IF \E j \in 1..Len(p.val) : ~SetString(p.val[j]).fGood
               THEN /\ SignThrow("RPC_INVALID_ADDRESS_OR_KEY", "Invalid private key")
                    /\ UNCHANGED tempKeystore
               ELSE /\ tempKeystore' =
                          [keys |-> {SetString(p.val[j]).key : j \in 1..Len(p.val)},
                           scripts |-> {}]
                    /\ gPc' = "prevtxs"
                    /\ UNCHANGED gResult
            /\ gParams' = ("keys" :> p) @@ gParams
       ELSE /\ UNCHANGED <<fGivenKeys, tempKeystore>>
            /\ \E wallet \in {"unlocked", "locked", "none"} :
                /\ gParams' = ("keys" :> p) @@ ("wallet" :> wallet) @@ gParams
                /\ CASE wallet = "unlocked" -> gPc' = "prevtxs" /\ UNCHANGED gResult
                    [] wallet = "locked" ->
                          SignThrow("RPC_WALLET_UNLOCK_NEEDED",
                                    "Error: Please enter the wallet passphrase with walletpassphrase first.")
                    [] OTHER -> gPc' = "crashed" /\ UNCHANGED gResult
    /\ UNCHANGED <<world, svars, xvars>>
    /\ UNCHANGED <<csMempool, gRaw, txVariants, mergedTx, fComplete, view, nWarm,
                   keystoreRef, prevTxs, nHashType, fHashSingle, nInput, nVariant,
                   prevPubKey>>

\* params[1] is read: line 656-659
SignPrevTxs(p) ==
    /\ gPc = "prevtxs"
    /\ gParams' = ("prevTxs" :> p) @@ gParams
    /\ prevTxs' = IF p.given THEN p.val ELSE <<>>
    /\ gPc' = "hint"
    /\ UNCHANGED <<world, svars, xvars>>
    /\ UNCHANGED <<csMempool, gRaw, txVariants, mergedTx, fComplete, view, nWarm,
                   fGivenKeys, tempKeystore, keystoreRef, nHashType, fHashSingle,
                   nInput, nVariant, prevPubKey, gResult>>

\* The amount of an output the view already holds is kept.
HintCoins_KeepsAmount(coins, nOut, script) ==
    IF nOut < Len(coins.vout) /\ coins.vout[nOut + 1].nValue # -1
    THEN [coins EXCEPT !.vout[nOut + 1].scriptPubKey = script]
    ELSE [coins EXCEPT !.vout =
              [(IF nOut >= Len(coins.vout)
                THEN coins.vout \o [j \in 1..(nOut + 1 - Len(coins.vout)) |-> NullTxOut]
                ELSE coins.vout) EXCEPT ![nOut + 1] = TxOut(0, script)]]

\* The coins are left with the hinted output alone.
HintCoins_OnlyOutput(coins, nOut, script) ==
    [coins EXCEPT !.vout = [j \in 1..(nOut + 1) |->
                               IF j = nOut + 1 THEN TxOut(0, script) ELSE NullTxOut]]

\* The coins a hint installs: line 686-690
HintCoins(coins, nOut, script) ==
    LET grown == IF nOut >= Len(coins.vout)
                 THEN coins.vout \o [j \in 1..(nOut + 1 - Len(coins.vout)) |-> NullTxOut]
                 ELSE coins.vout
    IN  [coins EXCEPT !.vout = [grown EXCEPT ![nOut + 1] = TxOut(0, script)]]

\* A spent output counts as a recorded script that differs.
HintMismatch_SpentToo(ok, coins, nOut, script) ==
    ok /\ nOut < Len(coins.vout) /\ coins.vout[nOut + 1].scriptPubKey # script

\* The hint contradicts what the view holds: line 678-679
HintMismatch(ok, coins, nOut, script) ==
    ok /\ IsAvailable(coins, nOut) /\ coins.vout[nOut + 1].scriptPubKey # script

\* CScript::ToString
ScriptToString(script) == script

\* The redeem script of every hint is recorded, keys given or not.
RecordsRedeem_AnyHint(given, script) == TRUE

\* "if redeemScript given and not using the local wallet (private keys
\* given), add redeemScript to the tempKeystore": line 696
RecordsRedeem(given, script) == given /\ IsPayToScriptHash(script)

\* One previous output of params[1] is applied: line 660-707
SignHint ==
    /\ gPc = "hint"
    /\ prevTxs # <<>>
    /\ LET p == Head(prevTxs)
           r == ViewGetCoins(view, pcoinsTip, mempool, p.txid)
       IN  IF ~p.isObj
           THEN /\ SignThrow("RPC_DESERIALIZATION_ERROR",
                             "expected object with {\"txid'\",\"vout\",\"scriptPubKey\"}")
                /\ UNCHANGED <<view, tempKeystore, prevTxs>>
           ELSE IF p.vout < 0
           THEN /\ SignThrow("RPC_DESERIALIZATION_ERROR", "vout must be positive")
                /\ UNCHANGED <<view, tempKeystore, prevTxs>>
           ELSE IF HintMismatch(r.ok, r.coins, p.vout, p.scriptPubKey)
           THEN /\ SignThrow("RPC_DESERIALIZATION_ERROR",
                             "Previous output scriptPubKey mismatch:\n"
                                \o ScriptToString(r.coins.vout[p.vout + 1].scriptPubKey)
                                \o "\nvs:\n" \o ScriptToString(p.scriptPubKey))
                /\ UNCHANGED <<view, tempKeystore, prevTxs>>
           ELSE /\ view' = ViewSetCoins(r.view, p.txid,
                                        HintCoins(r.coins, p.vout, p.scriptPubKey))
                /\ IF RecordsRedeem(fGivenKeys, p.scriptPubKey) /\ p.redeemScript = ""
                   THEN \* RPCTypeCheck(prevOut, ...("redeemScript", str_type)),
                        \* fAllowNull = false: line 699, rpcserver.h line 56-57
                        /\ SignThrow("RPC_TYPE_ERROR", "Missing redeemScript")
                        /\ UNCHANGED <<tempKeystore, prevTxs>>
                   ELSE /\ tempKeystore' =
                              IF RecordsRedeem(fGivenKeys, p.scriptPubKey)
                              THEN [tempKeystore EXCEPT !.scripts = @ \cup {p.redeemScript}]
                              ELSE tempKeystore
                        /\ prevTxs' = Tail(prevTxs)
                        /\ UNCHANGED <<gPc, gResult>>
    /\ UNCHANGED <<world, svars, xvars>>
    /\ UNCHANGED <<csMempool, gRaw, txVariants, mergedTx, fComplete, nWarm, fGivenKeys,
                   keystoreRef, nHashType, fHashSingle, nInput, nVariant, prevPubKey,
                   gParams>>

\* The table maps one selector to the wrong value.
mapSigHashValues_Wrong ==
    [mapSigHashValues EXCEPT !["NONE|ANYONECANPAY"] = SIGHASH_NONE]

\* The table consulted for params[3]: line 719-730
SigHashTable == mapSigHashValues

\* nHashType from params[3]: line 716-733
ParseSigHash(p) ==
    IF ~p.given THEN [ok |-> TRUE, nHashType |-> SIGHASH_ALL]
    ELSE IF p.val \in DOMAIN SigHashTable
    THEN [ok |-> TRUE, nHashType |-> SigHashTable[p.val]]
    ELSE [ok |-> FALSE, nHashType |-> SIGHASH_ALL]

\* All hints applied: keystore is bound and params[3] is read: line 710-735
SignSigHash(p) ==
    /\ gPc = "hint"
    /\ prevTxs = <<>>
    /\ gParams' = ("sighash" :> p) @@ gParams
    /\ keystoreRef' = IF fGivenKeys THEN "tempKeystore" ELSE "pwalletMain"
    /\ IF ParseSigHash(p).ok
       THEN /\ nHashType' = ParseSigHash(p).nHashType
            /\ fHashSingle' =
                  (BitAndNot(nHashType', SIGHASH_ANYONECANPAY) = SIGHASH_SINGLE)
            /\ nInput' = 0
            /\ gPc' = "loop"
            /\ UNCHANGED gResult
       ELSE /\ SignThrow("RPC_INVALID_PARAMETER", "Invalid sighash param")
            /\ UNCHANGED <<nHashType, fHashSingle, nInput>>
    /\ UNCHANGED <<world, svars, xvars>>
    /\ UNCHANGED <<csMempool, gRaw, txVariants, mergedTx, fComplete, view, nWarm,
                   fGivenKeys, tempKeystore, prevTxs, nVariant, prevPubKey>>

\* The wallet's keys are used whatever the caller supplied.
KeyStoreOf_AlwaysWallet(ref, temp) == WalletKeyStore

\* The store the reference "keystore" is bound to: line 711. Without given
\* keys pwalletMain is non-null here, EnsureWalletIsUnlocked has read it.
KeyStoreOf(ref, temp) == IF ref = "pwalletMain" THEN WalletKeyStore ELSE temp

\* The input is cleared before it is skipped.
UnresolvedInput_Cleared(txin) == [txin EXCEPT !.scriptSig = <<>>]

\* An input without an available coin is skipped by "continue": line 743-746
UnresolvedInput(txin) == txin

\* The coin of input i is looked up in the view: line 738-747
SignResolve ==
    /\ gPc = "loop"
    /\ nInput < Len(mergedTx.vin)
    /\ LET txin == mergedTx.vin[nInput + 1]
           r == ViewGetCoins(view, pcoinsTip, mempool, txin.prevout.hash)
       IN  /\ view' = r.view
           /\ IF ~r.ok \/ ~IsAvailable(r.coins, txin.prevout.n)
              THEN /\ fComplete' = FALSE
                   /\ mergedTx' = [mergedTx EXCEPT !.vin[nInput + 1] = UnresolvedInput(@)]
                   /\ nInput' = nInput + 1
                   /\ UNCHANGED <<gPc, prevPubKey>>
              ELSE /\ prevPubKey' = r.coins.vout[txin.prevout.n + 1].scriptPubKey
                   /\ gPc' = "sign"
                   /\ UNCHANGED <<fComplete, mergedTx, nInput>>
    /\ UNCHANGED <<world, svars, xvars>>
    /\ UNCHANGED <<csMempool, gRaw, txVariants, nWarm, fGivenKeys, tempKeystore,
                   keystoreRef, prevTxs, nHashType, fHashSingle, nVariant, gParams,
                   gResult>>

\* Every input is signed.
SignsInput_Always(single, i, nOut) == TRUE

\* "Only sign SIGHASH_SINGLE if there's a corresponding output": line 750-751
SignsInput(single, i, nOut) == ~single \/ i < nOut

\* The input is cleared and signed with the store's keys: line 749-752
SignSign ==
    /\ gPc = "sign"
    /\ mergedTx' =
          [mergedTx EXCEPT !.vin[nInput + 1].scriptSig =
              IF SignsInput(fHashSingle, nInput, Len(mergedTx.vout))
              THEN SignSignature(KeyStoreOf(keystoreRef, tempKeystore), prevPubKey,
                                 nInput, nHashType)
              ELSE <<>>]
    /\ nVariant' = 0
    /\ gPc' = "merge"
    /\ UNCHANGED <<world, svars, xvars>>
    /\ UNCHANGED <<csMempool, gRaw, txVariants, fComplete, view, nWarm, fGivenKeys,
                   tempKeystore, keystoreRef, prevTxs, nHashType, fHashSingle, nInput,
                   prevPubKey, gParams, gResult>>

\* Only the first variant is merged.
VariantsMerged_FirstOnly(variants) == 1

\* BOOST_FOREACH(txv, txVariants) visits every variant: line 755
VariantsMerged(variants) == Len(variants)

\* What reading txv.vin[i] past the end of txv.vin can yield when it does not
\* fault: an empty script or the bytes of a script left in memory.
StaleScriptSigs == {<<>>, <<Sig(2, 0, SIGHASH_ALL), Pub(2)>>}

\* The unlocking script of input i of the next variant is merged in; a variant
\* with no input i is read past its end: line 755-758
SignMerge ==
    /\ gPc = "merge"
    /\ nVariant < VariantsMerged(txVariants)
    /\ LET txv == txVariants[nVariant + 1]
           merged(other) ==
               [mergedTx EXCEPT !.vin[nInput + 1].scriptSig =
                   CombineSignatures(prevPubKey, nInput, @, other)]
           after == IF nVariant + 1 = VariantsMerged(txVariants) THEN "verify" ELSE "merge"
       IN  IF nInput < Len(txv.vin)
           THEN /\ mergedTx' = merged(txv.vin[nInput + 1].scriptSig)
                /\ nVariant' = nVariant + 1
                /\ gPc' = after
           ELSE \/ /\ gPc' = "crashed"
                   /\ UNCHANGED <<mergedTx, nVariant>>
                \/ \E stale \in StaleScriptSigs :
                      /\ mergedTx' = merged(stale)
                      /\ nVariant' = nVariant + 1
                      /\ gPc' = after
    /\ UNCHANGED <<world, svars, xvars>>
    /\ UNCHANGED <<csMempool, gRaw, txVariants, fComplete, view, nWarm, fGivenKeys,
                   tempKeystore, keystoreRef, prevTxs, nHashType, fHashSingle, nInput,
                   prevPubKey, gParams, gResult>>

\* fComplete is overwritten by the last verification.
CompleteAfterVerify_Overwritten(complete, verified) == verified

\* fComplete after VerifyScript on input i: line 759-760
CompleteAfterVerify(complete, verified) == complete /\ verified

\* An input whose script fails verification is emptied.
VerifiedInput_Reverted(txin, verified) ==
    IF verified THEN txin ELSE [txin EXCEPT !.scriptSig = <<>>]

\* The input after VerifyScript, which only reads txin.scriptSig: line 759-760
VerifiedInput(txin, verified) == txin

\* The merged script is verified: line 759-761
SignVerify ==
    /\ gPc = "verify"
    /\ mergedTx' =
          [mergedTx EXCEPT !.vin[nInput + 1] =
              VerifiedInput(@, VerifyScript(@.scriptSig, prevPubKey, nInput))]
    /\ fComplete' =
          CompleteAfterVerify(fComplete,
              VerifyScript(mergedTx.vin[nInput + 1].scriptSig, prevPubKey, nInput))
    /\ nInput' = nInput + 1
    /\ gPc' = "loop"
    /\ UNCHANGED <<world, svars, xvars>>
    /\ UNCHANGED <<csMempool, gRaw, txVariants, view, nWarm, fGivenKeys,
                   tempKeystore, keystoreRef, prevTxs, nHashType, fHashSingle,
                   nVariant, prevPubKey, gParams, gResult>>

\* The merged transaction and the flag are returned: line 763-769
SignReturn ==
    /\ gPc = "loop"
    /\ nInput = Len(mergedTx.vin)
    /\ gResult' = [error |-> "", message |-> "", returned |-> TRUE, tx |-> mergedTx,
                   complete |-> fComplete]
    /\ gPc' = "done"
    /\ UNCHANGED <<world, svars, xvars>>
    /\ UNCHANGED <<csMempool, gRaw, txVariants, mergedTx, fComplete, view, nWarm,
                   fGivenKeys, tempKeystore, keystoreRef, prevTxs, nHashType,
                   fHashSingle, nInput, nVariant, prevPubKey, gParams>>

SignNext ==
    \/ \E raw \in SignInputs : SignCall(raw)
    \/ SignDecode
    \/ SignLock
    \/ SignWarm
    \/ SignUnlock
    \/ \E p \in KeyParams : SignKeys(p)
    \/ \E p \in HintParams : SignPrevTxs(p)
    \/ SignHint
    \/ \E p \in SigHashParams : SignSigHash(p)
    \/ SignResolve
    \/ SignSign
    \/ SignMerge
    \/ SignVerify
    \/ SignReturn

SpecSign == InitSign /\ [][SignNext]_vars

\* While a signrawtransaction request runs and mempool.cs is free, another
\* operation changes the pending pool and the confirmed coins: transaction 1
\* is accepted, confirmed, spent or gone.  At most MaxBlocks such changes.
OtherOperation ==
    /\ gPc \notin {"idle", "done", "crashed"}
    /\ csMempool = "free"
    /\ nBlocks < MaxBlocks
    /\ \E place \in {"none", "pool", "tip", "spent"} :
          /\ mempool' = IF place = "pool" THEN {1} ELSE {}
          /\ pcoinsTip' =
                IF place = "tip" THEN (1 :> [vout |-> OutputsOf(1), nHeight |-> 1])
                ELSE IF place = "spent"
                THEN (1 :> [vout |-> [OutputsOf(1) EXCEPT ![1] = NullTxOut], nHeight |-> 1])
                ELSE <<>>
    /\ world' # world
    /\ nBlocks' = nBlocks + 1
    /\ UNCHANGED <<gvars, xvars>>
    /\ UNCHANGED <<sPc, sRaw, fOverrideFees, hashTx, fHaveMempool, fHaveChain, state,
                   sAdmit, sPre, sCalls, sResult, sLog>>

SharedNext == SignNext \/ OtherOperation

SpecSignShared == InitSign /\ [][SharedNext]_vars

(***************************************************************************)
(* createrawtransaction: values of the request                             *)
(***************************************************************************)
\* A JSON integer (64 bits) with value h * 2^31 + l, 0 <= l < 2^31.
JInt(h, l) == [type |-> "int", h |-> h, l |-> l]
JNull == [type |-> "null", h |-> 0, l |-> 0]
JStr == [type |-> "str", h |-> 0, l |-> 0]

MaxInt == 2147483647

\* "int n = v.get_int()": the low 32 bits of the JSON integer, signed.
GetInt(v) == IF v.h % 2 = 0 THEN v.l ELSE v.l - MaxInt - 1

\* An unsigned 32-bit value below 2^31, as its two 16-bit halves.
UInt32(n) == [hi |-> n \div 65536, lo |-> n % 65536]

\* One object of params[0]; txid 0 stands for a string that is not a hash.
\* The entries of params[0] and the pairs of params[1] are drawn as the loops
\* reach them, at most MaxInputs and MaxOutputs of them.
InputEntry(txid, vout, sequence) == [txid |-> txid, vout |-> vout, sequence |-> sequence]

InputEntries ==
    {InputEntry(1, JInt(0, 0), JNull),
     InputEntry(2, JInt(0, 1), JInt(0, 5)),
     InputEntry(1, JInt(-1, MaxInt), JNull),
     InputEntry(1, JInt(0, 0), JInt(-1, MaxInt)),
     InputEntry(1, JInt(0, 0), JInt(1, MaxInt - 1)),
     InputEntry(1, JNull, JNull),
     InputEntry(1, JInt(0, 0), JStr),
     InputEntry(0, JInt(0, 0), JNull)}

MaxInputs == 2
MaxOutputs == 3

\* A signed 64-bit amount, as its sign and its decimal digits.
Amount(neg, dec) == [neg |-> neg, dec |-> dec]

ZeroAmount == Amount(FALSE, "0")

DigitChars == <<"0", "1", "2", "3", "4", "5", "6", "7", "8", "9">>

IsDigit(c) == \E d \in 1..10 : DigitChars[d] = c

DigitVal(c) == (CHOOSE d \in 1..10 : DigitChars[d] = c) - 1

\* x > y for decimal numerals without leading zeros
RECURSIVE DecGreater(_, _)
DecGreater(x, y) ==
    IF Len(x) # Len(y) THEN Len(x) > Len(y)
    ELSE IF x = "" THEN FALSE
    ELSE IF SubSeq(x, 1, 1) # SubSeq(y, 1, 1)
    THEN DigitVal(SubSeq(x, 1, 1)) > DigitVal(SubSeq(y, 1, 1))
    ELSE DecGreater(SubSeq(x, 2, Len(x)), SubSeq(y, 2, Len(y)))

\* The longest prefix of str made of digits.
RECURSIVE DigitPrefix(_)
DigitPrefix(str) ==
    IF str # "" /\ IsDigit(SubSeq(str, 1, 1))
    THEN SubSeq(str, 1, 1) \o DigitPrefix(SubSeq(str, 2, Len(str)))
    ELSE ""

RECURSIVE StripZeros(_)
StripZeros(d) ==
    IF Len(d) > 1 /\ SubSeq(d, 1, 1) = "0" THEN StripZeros(SubSeq(d, 2, Len(d))) ELSE d

LLONG_MAX == "9223372036854775807"
LLONG_MIN == "9223372036854775808"

\* strtoll(str, NULL, 10): optional sign, then digits up to the first other
\* character; 0 without digits; clamped to the 64-bit range.
Strtoll(str) ==
    LET neg == str # "" /\ SubSeq(str, 1, 1) = "-"
        signed == str # "" /\ SubSeq(str, 1, 1) \in {"-", "+"}
        d == DigitPrefix(IF signed THEN SubSeq(str, 2, Len(str)) ELSE str)
        n == StripZeros(d)
    IN  IF d = "" \/ n = "0" THEN ZeroAmount
        ELSE IF neg THEN Amount(TRUE, IF DecGreater(n, LLONG_MIN) THEN LLONG_MIN ELSE n)
        ELSE Amount(FALSE, IF DecGreater(n, LLONG_MAX) THEN LLONG_MAX ELSE n)

\* max(DEFAULT_AMOUNT, amount) with DEFAULT_AMOUNT = 0
MaxDefault(a) == IF a.neg THEN ZeroAmount ELSE a

\* The largest n for which n * COIN fits in 64 bits: (2^63 - 1) div 10^8.
MaxCoins == "92233720368"

\* a * COIN, COIN = 100000000, for an a >= 0 whose product fits in 64 bits.
TimesCoin(a) == IF a.dec = "0" THEN a ELSE Amount(a.neg, a.dec \o "00000000")

\* What the overflowing signed product can be left as: the wrapped value of
\* 92233720369 * COIN, or any other value of the type.
OverflowAmounts == {Amount(TRUE, "9223372036809551616"), ZeroAmount}

\* boost::split(str, hexdata, is_any_of(":")): the pieces between the colons
RECURSIVE Split(_)
Split(str) ==
    IF \A j \in 1..Len(str) : SubSeq(str, j, j) # ":" THEN <<str>>
    ELSE LET k == CHOOSE j \in 1..Len(str) :
                      /\ SubSeq(str, j, j) = ":"
                      /\ \A m \in 1..(j - 1) : SubSeq(str, m, m) # ":"
         IN  <<SubSeq(str, 1, k - 1)>> \o Split(SubSeq(str, k + 1, Len(str)))

HexChars == <<"0", "1", "2", "3", "4", "5", "6", "7", "8", "9",
              "a", "b", "c", "d", "e", "f">>

UpperHexChars == <<"0", "1", "2", "3", "4", "5", "6", "7", "8", "9",
                   "A", "B", "C", "D", "E", "F">>

IsHexChar(c) == \E d \in 1..16 : HexChars[d] = c \/ UpperHexChars[d] = c

HexVal(c) == (CHOOSE d \in 1..16 : HexChars[d] = c \/ UpperHexChars[d] = c) - 1

\* IsHex(str)
IsHex(str) ==
    /\ \A j \in 1..Len(str) : IsHexChar(SubSeq(str, j, j))
    /\ Len(str) > 0
    /\ Len(str) % 2 = 0

\* ParseHex(str): one byte per pair of hex digits
ParseHex(str) ==
    [j \in 1..(Len(str) \div 2) |->
        16 * HexVal(SubSeq(str, 2 * j - 1, 2 * j - 1)) + HexVal(SubSeq(str, 2 * j, 2 * j))]

\* CScript() << OP_RETURN << data
NullDataScript(data) == [op |-> "OP_RETURN", data |-> data, dest |-> ""]

\* scriptPubKey.SetDestination(address.Get())
DestinationScript(dest) == [op |-> "DESTINATION", data |-> <<>>, dest |-> dest]

\* One pair of params[1]: a "data" pair carries a string, any other pair is
\* named by an address and carries what AmountFromValue makes of its value.
DataPair(str) == [name |-> "data", str |-> str, ok |-> TRUE, nAmount |-> ZeroAmount]
AddressPair(name, ok, nAmount) == [name |-> name, str |-> "", ok |-> ok, nAmount |-> nAmount]

SendToPairs ==
    {DataPair("00010203:5"), DataPair("00010203"), DataPair("ff:-3"),
     DataPair("00:92233720369"), DataPair("zz"),
     AddressPair("addrA", TRUE, Amount(FALSE, "2")),
     AddressPair("addrB", TRUE, Amount(FALSE, "1")),
     AddressPair("addrA", FALSE, ZeroAmount),
     AddressPair("bogus", TRUE, Amount(FALSE, "1"))}

\* CBitcoinAddress(name).IsValid() and Get()
AddressOf(name) ==
    CASE name = "addrA" -> [valid |-> TRUE, dest |-> "A"]
      [] name = "addrB" -> [valid |-> TRUE, dest |-> "B"]
      [] OTHER -> [valid |-> FALSE, dest |-> ""]

(***************************************************************************)
(* createrawtransaction                                                    *)
(***************************************************************************)
BuildError(code, msg) == [error |-> code, message |-> msg, returned |-> FALSE, tx |-> EmptyTx]

\* The request ends by throwing a JSONRPCError.
BuildThrow(code, msg) ==
    /\ bPc' = "done"
    /\ bResult' = BuildError(code, msg)

\* A request arrives; params[0] is an array and params[1] an object: line 358-363
BuildCall ==
    /\ bPc = "idle"
    /\ bPc' = "inputs"
    /\ inputs' = <<>>
    /\ sendTo' = <<>>
    /\ rawTx' = EmptyTx
    /\ setAddress' = {}
    /\ bResult' = NoBuildResult
    /\ UNCHANGED <<world, svars, gvars, cvars, mvars, dvars>>

\* "int nSequence = sequence.get_int()", the sign test and the assignment to
\* the unsigned in.nSequence: line 382-385
SequenceOf(v) ==
    IF GetInt(v) < 0 THEN [ok |-> FALSE, nSequence |-> UInt32(0)]
    ELSE [ok |-> TRUE, nSequence |-> UInt32(GetInt(v))]

\* The next object o of params[0] becomes an input: line 365-389
BuildInput(o) ==
    /\ bPc = "inputs"
    /\ Len(inputs) < MaxInputs
    /\ inputs' = Append(inputs, o)
    /\ IF o.txid = 0
       THEN /\ BuildThrow("RPC_INVALID_PARAMETER", "txid must be hexadecimal string")
            /\ UNCHANGED rawTx
       ELSE IF o.vout.type # "int"
       THEN /\ BuildThrow("RPC_INVALID_PARAMETER", "Invalid parameter, missing vout key")
            /\ UNCHANGED rawTx
       ELSE IF GetInt(o.vout) < 0
       THEN /\ BuildThrow("RPC_INVALID_PARAMETER", "Invalid parameter, vout must be positive")
            /\ UNCHANGED rawTx
       ELSE IF o.sequence.type = "int" /\ ~SequenceOf(o.sequence).ok
       THEN /\ BuildThrow("RPC_INVALID_PARAMETER",
                          "Invalid parameter, sequence must be positive")
            /\ UNCHANGED rawTx
       ELSE /\ rawTx' =
                  [rawTx EXCEPT !.vin = Append(@,
                      IF o.sequence.type = "int"
                      THEN [TxIn(o.txid, GetInt(o.vout), <<>>)
                               EXCEPT !.nSequence = SequenceOf(o.sequence).nSequence]
                      ELSE TxIn(o.txid, GetInt(o.vout), <<>>))]
            /\ UNCHANGED <<bPc, bResult>>
    /\ UNCHANGED <<sendTo, setAddress>>
    /\ UNCHANGED <<world, svars, gvars, cvars, mvars, dvars>>

\* params[0] has no further entry; the loop over params[1] starts: line 389-395
BuildSendTo ==
    /\ bPc = "inputs"
    /\ setAddress' = {}
    /\ bPc' = "outputs"
    /\ UNCHANGED <<inputs, sendTo, rawTx, bResult>>
    /\ UNCHANGED <<world, svars, gvars, cvars, mvars, dvars>>

\* The amount of a "data" pair before it is multiplied: line 400-407
DataAmount(str) == IF Len(str) = 2 THEN MaxDefault(Strtoll(str[2])) ELSE ZeroAmount

\* The values max(DEFAULT_AMOUNT, amount) * COIN can leave: the product, or
\* whatever the overflowing signed multiplication yields: line 409
DataValues(a) == IF DecGreater(a.dec, MaxCoins) THEN OverflowAmounts ELSE {TimesCoin(a)}

\* The address is taken for new whether or not it was seen.
SeenAddress_Never(seen, dest) == FALSE

\* setAddress.count(address): line 416
SeenAddress(seen, dest) == dest \in seen

\* The output is put before the others.
PushBack_Front(vout, out) == <<out>> \o vout

\* rawTx.vout.push_back(out): line 409, 425
PushBack(vout, out) == Append(vout, out)

\* The next pair s of params[1] becomes an output: line 395-427
BuildOutput(s) ==
    /\ bPc = "outputs"
    /\ Len(sendTo) < MaxOutputs
    /\ sendTo' = Append(sendTo, s)
    /\ IF s.name = "data"
       THEN /\ UNCHANGED setAddress
            /\ IF ~IsHex(Split(s.str)[1])
               THEN /\ BuildThrow("RPC_INVALID_PARAMETER", "Data must be hexadecimal string")
                    /\ UNCHANGED rawTx
               ELSE /\ \E v \in DataValues(DataAmount(Split(s.str))) :
                          rawTx' = [rawTx EXCEPT !.vout = PushBack(@,
                                       TxOut(v, NullDataScript(ParseHex(Split(s.str)[1]))))]
                    /\ UNCHANGED <<bPc, bResult>>
       ELSE IF ~AddressOf(s.name).valid
       THEN /\ BuildThrow("RPC_INVALID_ADDRESS_OR_KEY",
                          "Invalid Smileycoin address: " \o s.name)
            /\ UNCHANGED <<rawTx, setAddress>>
       ELSE IF SeenAddress(setAddress, AddressOf(s.name).dest)
       THEN /\ BuildThrow("RPC_INVALID_PARAMETER",
                          "Invalid parameter, duplicated address: " \o s.name)
            /\ UNCHANGED <<rawTx, setAddress>>
       ELSE /\ setAddress' = setAddress \cup {AddressOf(s.name).dest}
            /\ IF ~s.ok
               THEN /\ BuildThrow("RPC_TYPE_ERROR", "Invalid amount")
                    /\ UNCHANGED rawTx
               ELSE /\ rawTx' = [rawTx EXCEPT !.vout = PushBack(@,
                                    TxOut(s.nAmount, DestinationScript(AddressOf(s.name).dest)))]
                    /\ UNCHANGED <<bPc, bResult>>
    /\ UNCHANGED inputs
    /\ UNCHANGED <<world, svars, gvars, cvars, mvars, dvars>>

\* params[1] has no further pair; the transaction is serialized and returned
\* as hex: line 429-431
BuildReturn ==
    /\ bPc = "outputs"
    /\ bResult' = [error |-> "", message |-> "", returned |-> TRUE, tx |-> rawTx]
    /\ bPc' = "done"
    /\ UNCHANGED <<inputs, sendTo, rawTx, setAddress>>
    /\ UNCHANGED <<world, svars, gvars, cvars, mvars, dvars>>

BuildNext ==
    \/ BuildCall
    \/ \E o \in InputEntries : BuildInput(o)
    \/ BuildSendTo
    \/ \E s \in SendToPairs : BuildOutput(s)
    \/ BuildReturn

\* createrawtransaction reads neither the pending pool nor the confirmed coins.
InitBuildWorld == mempool = {} /\ pcoinsTip = <<>>

InitBuild == InitBuildWorld /\ InitSubmitLocals /\ InitSignLocals /\ InitOthers

SpecBuild == InitBuild /\ [][BuildNext]_vars

(***************************************************************************)
(* Token commitment: GetHexStringFromBytes, CreateToken, createtoken       *)
(***************************************************************************)
\* The zero byte.
NUL == "NUL"

\* The characters of a string, one by one.
Chars(str) == [j \in 1..Len(str) |-> SubSeq(str, j, j)]

Repeat(c, n) == [j \in 1..n |-> c]

\* uint256::GetHex: 64 hex digits, here of an identifier one byte wide
GetHex256(h) ==
    "00000000000000000000000000000000000000000000000000000000000000" \o GetHex(h)

\* "for(char character : c)": the byte as a char, which the build makes
\* signed or unsigned: line 960
CharOf(b, fSigned) == IF fSigned /\ b >= 128 THEN b - 256 ELSE b

\* The digits are appended low half first.
NibblesOf_LowFirst(character) == <<character % 16, (character \div 16) % 16>>

\* firstHalf = (character >> 4) & 0x0F and secondHalf = character & 0x0F,
\* in the order their digits are appended: line 961-962
NibblesOf(character) == <<(character \div 16) % 16, character % 16>>

\* GetHexStringFromBytes(c): line 957-1034
RECURSIVE GetHexStringFromBytes(_, _)
GetHexStringFromBytes(c, fSigned) ==
    IF c = <<>> THEN ""
    ELSE LET half == NibblesOf(CharOf(Head(c), fSigned))
         IN  HexChars[half[1] + 1] \o HexChars[half[2] + 1]
                 \o GetHexStringFromBytes(Tail(c), fSigned)

\* The contents of the file at pathToFile: one byte, a zero byte inside, a
\* zero byte first in 64 bytes, a zero byte after 64 bytes.
Files ==
    {<<"a">>,
     <<"a", NUL, "b">>,
     <<NUL>> \o Repeat("z", 63),
     Repeat("z", 64) \o <<NUL>>}

\* What the memory behind "char buffer[length]" can hold up to its first
\* zero byte.
StackTails == {<<>>, <<"x">>}

\* string filestring(buffer): the bytes up to the first zero byte, read from
\* the buffer and, when the buffer holds none, from the memory behind
\* it: line 1103-1108
FileString(buffer, tail) ==
    LET mem == buffer \o tail \o <<NUL>>
        end == CHOOSE j \in 1..Len(mem) :
                   mem[j] = NUL /\ \A k \in 1..(j - 1) : mem[k] # NUL
    IN  SubSeq(mem, 1, end - 1)

\* The number of bytes hashWriter.write is given: line 1115
HashedBytes == 64

\* The keys MakeNewKey can give.
TokenKeys == {1, 2}

\* The signatures key.Sign(hash, signature) can give with the key: every
\* single byte with one key, longer ones with the other.
Signatures(k) ==
    IF k = 1 THEN {<<b>> : b \in 0..255}
    ELSE {<<48, 10, 255>>, <<0, 0>>, <<171, 205, 239>>}

\* The values filestring can take for the buffer read from the file.
FileStrings(buffer) == {FileString(buffer, tail) : tail \in StackTails}

\* CreateToken(pathToFile, previousTxId): the tokens the call can compute
\* for the bytes of the file and the anchor, which has 64 characters so that
\* the string written to the hash holds HashedBytes bytes: line 1095-1139
CreateToken(file, previousTxId) ==
    UNION {{[filestring |-> str \o Chars(previousTxId),
             hash |-> HashOf(SubSeq(str \o Chars(previousTxId), 1, HashedBytes)),
             key |-> k,
             signature |-> sig,
             id |-> GetHexStringFromBytes(sig, fSigned),
             pub |-> "pubkeyhash" \o HexDigit(k),
             priv |-> "secret" \o HexDigit(k)] :
                str \in FileStrings(file), sig \in Signatures(k), fSigned \in BOOLEAN} :
           k \in TokenKeys}

\* Object result of createtoken and CreateToken: line 1131-1135
TokenObject(tk) ==
    <<[name |-> "Token ID", value |-> tk.id],
      [name |-> "Token public key", value |-> tk.pub],
      [name |-> "Token private key", value |-> tk.priv]>>

\* createtoken is called with the path of a file and an anchor: line 1036-1050
CommitCall(file, anchor) ==
    /\ cPc \in {"idle", "done"}
    /\ cPc' = "called"
    /\ cParams' = [file |-> file, previousTxId |-> anchor, hash |-> HashOf(<<>>),
                   made |-> TRUE]
    /\ cPrev' = cParams
    /\ cToken' = NoToken
    /\ cResult' = <<>>
    /\ UNCHANGED <<world, svars, gvars, bvars, mvars, dvars>>

\* The file is read and hashed with the anchor, a key is made and the digest
\* signed: line 1052-1083
CommitCreate ==
    /\ cPc = "called"
    /\ \E tk \in CreateToken(cParams.file, cParams.previousTxId) :
          /\ cToken' = tk
          /\ cParams' = [cParams EXCEPT !.hash = tk.hash]
    /\ cPc' = "created"
    /\ UNCHANGED <<cPrev, cResult>>
    /\ UNCHANGED <<world, svars, gvars, bvars, mvars, dvars>>

\* The three pairs are returned: line 1085-1091
CommitReturn ==
    /\ cPc = "created"
    /\ cResult' = TokenObject(cToken)
    /\ cPc' = "done"
    /\ UNCHANGED <<cParams, cToken, cPrev>>
    /\ UNCHANGED <<world, svars, gvars, bvars, mvars, dvars>>

CommitNext ==
    \/ \E file \in Files, t \in TxIds : CommitCall(file, GetHex256(t))
    \/ CommitCreate
    \/ CommitReturn

InitCommit == InitBuildWorld /\ InitSubmitLocals /\ InitSignLocals /\ InitOthers

SpecCommit == InitCommit /\ [][CommitNext]_vars

(***************************************************************************)
(* inittoken                                                               *)
(***************************************************************************)
\* n coins in base units: n * COIN
Coins(n) == TimesCoin(Amount(FALSE, n))

\* The outputs SendMoneyToDestination2 can give the funding transaction: the
\* payment alone, with change before or after it, to an address of the
\* address book the wallet has no key for, and without an output of the
\* amount asked for.
FundingOutputs ==
    {<<TxOut(Coins("1001"), "PKH1")>>,
     <<TxOut(Coins("7"), "PKH1"), TxOut(Coins("1001"), "PKH1")>>,
     <<TxOut(Coins("1001"), "PKH1"), TxOut(Coins("7"), "PKH1")>>,
     <<TxOut(Coins("1001"), "PKH2")>>,
     <<TxOut(Coins("1000"), "PKH1")>>,
     <<TxOut(Coins("7"), "PKH1"), TxOut(Coins("1000"), "PKH1")>>}

\* The identifier of a transaction made now: one that neither the pending
\* pool nor the confirmed view knows.
NewTxId(pool, tip) ==
    CHOOSE t \in TxIds \ (pool \cup DOMAIN tip) :
        \A u \in TxIds \ (pool \cup DOMAIN tip) : t <= u

\* The request ends by throwing.
MintThrow(err) ==
    /\ mPc' = "done"
    /\ mResult' = err

\* A request arrives with an address and the path of a file: line 1192-1204
MintCall(address, file) ==
    /\ mPc = "idle"
    /\ mParams' = [address |-> address, file |-> file]
    /\ mPc' = "fund"
    /\ UNCHANGED <<inputtxid, inputTransaction, nOutput, token, mintTx, mComplete,
                   mHash, mCalls, mResult>>
    /\ UNCHANGED <<world, svars, gvars, bvars, cvars, dvars>>

\* makeInputTransactionForToken(1001): the wallet sends 1001 coins to the
\* first address of its address book, or reports an error: line 1142-1162,
\* 1207
MintFund ==
    /\ mPc = "fund"
    /\ mCalls' = Append(mCalls, Call("Send", 0, FALSE))
    /\ \/ /\ MintThrow(JSONRPCError("RPC_WALLET_ERROR", "Insufficient funds"))
          /\ UNCHANGED <<world, inputtxid, inputTransaction>>
       \/ \E fPooled \in BOOLEAN :
             /\ inputtxid' = NewTxId(mempool, pcoinsTip)
             /\ mempool' = IF fPooled THEN mempool \cup {inputtxid'} ELSE mempool
             /\ UNCHANGED <<pcoinsTip, inputTransaction, mResult>>
             /\ mPc' = "gettx"
    /\ UNCHANGED <<mParams, nOutput, token, mintTx, mComplete, mHash>>
    /\ UNCHANGED <<svars, gvars, bvars, cvars, dvars>>

\* GetTransaction(inputtxid, inputTransaction, hashBlock, false): line 1210-1213
MintGetTransaction ==
    /\ mPc = "gettx"
    /\ IF MempoolExists(mempool, inputtxid)
       THEN /\ \E vout \in FundingOutputs :
                  inputTransaction' = [txid |-> inputtxid, vout |-> vout]
            /\ mPc' = "locate"
            /\ UNCHANGED mResult
       ELSE /\ MintThrow(JSONRPCError("runtime_error", "Error"))
            /\ UNCHANGED inputTransaction
    /\ UNCHANGED <<mParams, inputtxid, nOutput, token, mintTx, mComplete, mHash, mCalls>>
    /\ UNCHANGED <<world, svars, gvars, bvars, cvars, dvars>>

\* nOutput after the loop over inputTransaction.vout: the number of outputs
\* passed before the first one of 1001 * COIN, all of them when there is
\* none: line 1216-1223
FundingIndex(vout) ==
    IF \E j \in 1..Len(vout) : vout[j].nValue = Coins("1001")
    THEN (CHOOSE j \in 1..Len(vout) :
              /\ vout[j].nValue = Coins("1001")
              /\ \A k \in 1..(j - 1) : vout[k].nValue # Coins("1001")) - 1
    ELSE Len(vout)

MintLocate ==
    /\ mPc = "locate"
    /\ nOutput' = FundingIndex(inputTransaction.vout)
    /\ mPc' = "commit"
    /\ UNCHANGED <<mParams, inputtxid, inputTransaction, token, mintTx, mComplete,
                   mHash, mCalls, mResult>>
    /\ UNCHANGED <<world, svars, gvars, bvars, cvars, dvars>>

\* inputtxid.GetHex(), the anchor given to CreateToken: line 1226
Anchor(txid) == GetHex256(txid)

\* Value token = CreateToken(params[1].get_str(), inputtxid.GetHex()): line 1226
MintCommit ==
    /\ mPc = "commit"
    /\ \E tk \in CreateToken(mParams.file, Anchor(inputtxid)) : token' = tk
    /\ mPc' = "build"
    /\ UNCHANGED <<mParams, inputtxid, inputTransaction, nOutput, mintTx, mComplete,
                   mHash, mCalls, mResult>>
    /\ UNCHANGED <<world, svars, gvars, bvars, cvars, dvars>>

\* The outputs are pushed commitment first.
MintOutputs_CommitmentFirst(dest, data) ==
    <<TxOut(ZeroAmount, NullDataScript(data)),
      TxOut(Coins("1000"), DestinationScript(dest))>>

\* out and out2 as pushed to rawTx.vout: line 1241-1253
MintOutputs(dest, data) ==
    <<TxOut(Coins("1000"), DestinationScript(dest)),
      TxOut(ZeroAmount, NullDataScript(data))>>

\* The transaction is built from the funding output, the address and the
\* token: line 1228-1253
MintBuild ==
    /\ mPc = "build"
    /\ IF ~AddressOf(mParams.address).valid
       THEN /\ MintThrow(JSONRPCError("RPC_INVALID_ADDRESS_OR_KEY", "Invalid smly address"))
            /\ mintTx' = Tx(<<TxIn(inputtxid, nOutput, <<>>)>>, <<>>)
       ELSE IF ~IsHex(token.id)
       THEN /\ MintThrow(JSONRPCError("RPC_INVALID_PARAMETER",
                                      "Token ID must be hexadecimal string"))
            /\ mintTx' = Tx(<<TxIn(inputtxid, nOutput, <<>>)>>,
                            <<TxOut(Coins("1000"),
                                    DestinationScript(AddressOf(mParams.address).dest))>>)
       ELSE /\ mintTx' = Tx(<<TxIn(inputtxid, nOutput, <<>>)>>,
                            MintOutputs(AddressOf(mParams.address).dest,
                                        ParseHex(token.id)))
            /\ mPc' = "sign"
            /\ UNCHANGED mResult
    /\ UNCHANGED <<mParams, inputtxid, inputTransaction, nOutput, token, mComplete,
                   mHash, mCalls>>
    /\ UNCHANGED <<world, svars, gvars, bvars, cvars, dvars>>

\* Inputs are signed with the selector NONE.
TokenHashType_None == SIGHASH_NONE

\* "int nHashType = SIGHASH_ALL;" of signrawtokentransaction: line 922
TokenHashType == SIGHASH_ALL

\* The scripts of others merged one after the other into sig: line 940-943
RECURSIVE FoldCombine(_, _, _, _)
FoldCombine(script, i, sig, others) ==
    IF others = <<>> THEN sig
    ELSE FoldCombine(script, i, CombineSignatures(script, i, sig, Head(others)),
                     Tail(others))

\* The unlocking script signrawtokentransaction leaves on a resolved input i
\* locked by script, others being the scripts the variants hold for input i:
\* the wallet signs (fGivenKeys is false, fHashSingle is false), then the
\* variants are merged in: line 936-943
TokenScriptSig(script, i, others) ==
    FoldCombine(script, i, SignSignature(WalletKeyStore, script, i, TokenHashType),
                others)

\* What reading txv.vin[i].scriptSig can yield when it does not fault: line 942
ScriptSigsRead(txv, i) ==
    IF i < Len(txv.vin) THEN {txv.vin[i + 1].scriptSig} ELSE StaleScriptSigs

\* The signing loop of signrawtokentransaction from input i (from 0) on, over
\* the coins the view fetched from the pending pool and the confirmed coins
\* while warming: the ways it can end.  Line 926-951
RECURSIVE TokenLoop(_, _, _, _, _, _)
TokenLoop(variants, tip, pool, tx, complete, i) ==
    IF i = Len(tx.vin)
    THEN {[crashed |-> FALSE, error |-> "", message |-> "", returned |-> TRUE,
           tx |-> tx, complete |-> complete]}
    ELSE LET txin == tx.vin[i + 1]
             r == BaseGetCoins("viewMempool", tip, pool, txin.prevout.hash)
         IN  IF ~r.ok \/ ~IsAvailable(r.coins, txin.prevout.n)
             THEN TokenLoop(variants, tip, pool, tx, FALSE, i + 1)
             ELSE LET script == r.coins.vout[txin.prevout.n + 1].scriptPubKey
                      reads == {q \in [1..Len(variants) ->
                                         UNION {ScriptSigsRead(variants[v], i) :
                                                    v \in 1..Len(variants)}] :
                                   \A v \in 1..Len(variants) :
                                       q[v] \in ScriptSigsRead(variants[v], i)}
                      signed(q) == TokenScriptSig(script, i, q)
                  IN  (IF \E v \in 1..Len(variants) : i >= Len(variants[v].vin)
                       THEN {[crashed |-> TRUE, error |-> "", message |-> "",
                              returned |-> FALSE, tx |-> EmptyTx, complete |-> FALSE]}
                       ELSE {})
                      \cup UNION {TokenLoop(variants, tip, pool,
                                       [tx EXCEPT !.vin[i + 1].scriptSig = signed(q)],
                                       complete /\ VerifyScript(signed(q), script, i),
                                       i + 1) : q \in reads}

\* signrawtokentransaction(txDataHex), raw being what the decode loop makes
\* of txDataHex and wallet the state of pwalletMain: the ways the call can
\* end.  Line 867-952
SignRawTokenTransaction(raw, wallet, tip, pool) ==
    IF ~raw.ok
    THEN {[crashed |-> FALSE] @@ SignError("RPC_DESERIALIZATION_ERROR", "TX decode failed")}
    ELSE IF raw.txs = <<>>
    THEN {[crashed |-> FALSE] @@ SignError("RPC_DESERIALIZATION_ERROR", "Missing transaction")}
    ELSE IF wallet = "locked"
    THEN {[crashed |-> FALSE] @@
          SignError("RPC_WALLET_UNLOCK_NEEDED",
                    "Error: Please enter the wallet passphrase with walletpassphrase first.")}
    ELSE IF wallet = "none"
    THEN {[crashed |-> TRUE] @@ NoSignResult}
    ELSE TokenLoop(raw.txs, tip, pool, raw.txs[1], TRUE, 0)

\* signrawtokentransaction(HexStr(rawTx)): the single input is looked up in
\* the pending pool, signed with the wallet's keys, merged and verified: line
\* 867-955, 1256-1258
MintSign ==
    /\ mPc = "sign"
    /\ LET vout == inputTransaction.vout
           fAvailable == MempoolExists(mempool, inputtxid) /\ nOutput < Len(vout)
           script == vout[nOutput + 1].scriptPubKey
           signed == TokenScriptSig(script, 0, <<mintTx.vin[1].scriptSig>>)
       IN  IF fAvailable
           THEN /\ mintTx' = [mintTx EXCEPT !.vin[1].scriptSig = signed]
                /\ mComplete' = VerifyScript(signed, script, 0)
           ELSE /\ mintTx' = mintTx
                /\ mComplete' = FALSE
    /\ mPc' = "submit"
    /\ UNCHANGED <<mParams, inputtxid, inputTransaction, nOutput, token, mHash, mCalls,
                   mResult>>
    /\ UNCHANGED <<world, svars, gvars, bvars, cvars, dvars>>

\* The signed transaction is decoded and, being neither pending nor
\* confirmed, offered to the pending pool: line 1260-1293
MintSubmit ==
    /\ mPc = "submit"
    /\ LET h == NewTxId(mempool, pcoinsTip) IN
          /\ mHash' = h
          /\ CASE AfterLookup(MempoolExists(mempool, h), HaveChain(pcoinsTip, h)) = "admit" ->
                    /\ \/ /\ mempool' = mempool \cup {h}
                          /\ mCalls' = SyncWithWallets(
                                           Append(mCalls, Call("Admit", h, TRUE)), h)
                          /\ mPc' = "relay"
                          /\ UNCHANGED mResult
                       \/ \E st \in RejectStates(TRUE) :
                             /\ mempool' = mempool
                             /\ mCalls' = Append(mCalls, Call("Admit", h, TRUE))
                             /\ MintThrow(RejectError(st))
               [] AfterLookup(MempoolExists(mempool, h), HaveChain(pcoinsTip, h)) = "inchain" ->
                    /\ MintThrow(JSONRPCError("RPC_TRANSACTION_ALREADY_IN_CHAIN",
                                              "transaction already in block chain"))
                    /\ UNCHANGED <<mempool, mCalls>>
               [] OTHER ->
                    /\ mPc' = "relay"
                    /\ UNCHANGED <<mempool, mCalls, mResult>>
    /\ UNCHANGED <<pcoinsTip, mParams, inputtxid, inputTransaction, nOutput, token,
                   mintTx, mComplete>>
    /\ UNCHANGED <<svars, gvars, bvars, cvars, dvars>>

\* Object result of inittoken: line 1297-1303
MintResult(tokenObject, hash) ==
    Append(tokenObject, [name |-> "transactionid", value |-> GetHex256(hash)])

\* RelayTransaction(tx, hashTx) and the result: line 1295-1305
MintReturn ==
    /\ mPc = "relay"
    /\ mCalls' = RelayTransaction(mCalls, mHash)
    /\ mResult' = Return(MintResult(TokenObject(token), mHash))
    /\ mPc' = "done"
    /\ UNCHANGED <<mParams, inputtxid, inputTransaction, nOutput, token, mintTx,
                   mComplete, mHash>>
    /\ UNCHANGED <<world, svars, gvars, bvars, cvars, dvars>>

MintNext ==
    \/ \E address \in {"addrA", "bogus"}, file \in Files : MintCall(address, file)
    \/ MintFund
    \/ MintGetTransaction
    \/ MintLocate
    \/ MintCommit
    \/ MintBuild
    \/ MintSign
    \/ MintSubmit
    \/ MintReturn

InitToken == InitBuildWorld /\ InitSubmitLocals /\ InitSignLocals /\ InitOthers

SpecMint == InitToken /\ [][MintNext]_vars

(***************************************************************************)
(* Serialization of transactions: "ss << rawTx" and "ssData >> tx".  The    *)
(* byte format is that of CTransaction, CTxIn, CTxOut and CScript, on      *)
(* transactions whose integer fields are kept as 16-bit halves.            *)
(***************************************************************************)
\* The two bytes of a 16-bit value, low byte first, and back.
LE16(n) == <<n % 256, n \div 256>>

ReadLE16_HighFirst(b) == 256 * b[1] + b[2]

ReadLE16(b) == b[1] + 256 * b[2]

\* unsigned int, as [hi, lo]
WriteUInt32(v) == LE16(v.lo) \o LE16(v.hi)

ReadUInt32(b) == [hi |-> ReadLE16(SubSeq(b, 3, 4)), lo |-> ReadLE16(SubSeq(b, 1, 2))]

\* int64_t, as the two 32-bit halves of its two's complement
WriteInt64(v) == WriteUInt32(v.lo) \o WriteUInt32(v.hi)

ReadInt64(b) == [hi |-> ReadUInt32(SubSeq(b, 5, 8)), lo |-> ReadUInt32(SubSeq(b, 1, 4))]

\* int, through its two's complement
WriteInt32(n) ==
    WriteUInt32(IF n >= 0 THEN UInt32(n)
                ELSE [hi |-> (n + MaxInt + 1) \div 65536 + 32768,
                      lo |-> (n + MaxInt + 1) % 65536])

ReadInt32(b) ==
    LET v == ReadUInt32(b)
    IN  IF v.hi < 32768 THEN 65536 * v.hi + v.lo
        ELSE 65536 * (v.hi - 32768) + v.lo - MaxInt - 1

\* What a read leaves: the value and the bytes after it, or a failure
\* (the exception the stream throws).
ReadOk(v, rest) == [ok |-> TRUE, v |-> v, rest |-> rest]

ReadFail == [ok |-> FALSE, v |-> <<>>, rest |-> <<>>]

\* The read e and then, unless it failed, the read F of what it left; e is
\* evaluated once.
Then(e, F(_)) == CHOOSE y \in {IF r.ok THEN F(r) ELSE ReadFail : r \in {e}} : TRUE

\* A read that takes zero bytes for the bytes that are missing.
Read_Padded(b, n) ==
    ReadOk(SubSeq(b \o Repeat(0, n), 1, n), SubSeq(b, n + 1, Len(b)))

\* CDataStream::read of n bytes
Read(b, n) ==
    IF Len(b) < n THEN ReadFail
    ELSE ReadOk(SubSeq(b, 1, n), SubSeq(b, n + 1, Len(b)))

MAX_SIZE == 33554432

\* WriteCompactSize, for sizes below 65536
WriteCompactSize(n) == IF n < 253 THEN <<n>> ELSE <<253>> \o LE16(n)

\* ReadCompactSize: one byte below 253, else 2, 4 or 8 bytes after the
\* marker, low byte first; a size above MAX_SIZE is an error.
ReadCompactSize(b) ==
    IF b = <<>> THEN ReadFail
    ELSE LET rest == Tail(b)
             n == Len(rest)
         IN  CASE b[1] < 253 -> ReadOk(b[1], rest)
               [] b[1] = 253 ->
                    IF n < 2 THEN ReadFail
                    ELSE ReadOk(ReadLE16(rest), SubSeq(rest, 3, n))
               [] b[1] = 254 ->
                    IF n < 4 THEN ReadFail
                    ELSE IF rest[4] > 2 \/ (rest[4] = 2 /\ rest[1] + rest[2] + rest[3] > 0)
                    THEN ReadFail
                    ELSE ReadOk(ReadLE16(rest) + 65536 * ReadLE16(SubSeq(rest, 3, 4)),
                                SubSeq(rest, 5, n))
               [] OTHER ->
                    IF n < 8 THEN ReadFail
                    ELSE IF \/ rest[5] + rest[6] + rest[7] + rest[8] > 0
                            \/ rest[4] > 2
                            \/ (rest[4] = 2 /\ rest[1] + rest[2] + rest[3] > 0)
                    THEN ReadFail
                    ELSE ReadOk(ReadLE16(rest) + 65536 * ReadLE16(SubSeq(rest, 3, 4)),
                                SubSeq(rest, 9, n))

\* CScript: the size, then the bytes
WriteScript(script) == WriteCompactSize(Len(script)) \o script

ReadScript(b) == Then(ReadCompactSize(b), LAMBDA size : Read(size.rest, size.v))

\* The bytes of a uint256.
HashWidth == 32

\* CTxIn: prevout (hash, n), scriptSig, nSequence
WireTxIn(hash, n, scriptSig, nSequence) ==
    [prevout |-> [hash |-> hash, n |-> n], scriptSig |-> scriptSig,
     nSequence |-> nSequence]

WriteTxIn(txin) ==
    txin.prevout.hash \o WriteUInt32(txin.prevout.n) \o WriteScript(txin.scriptSig)
        \o WriteUInt32(txin.nSequence)

ReadTxIn(b) ==
    Then(Read(b, HashWidth), LAMBDA hash :
    Then(Read(hash.rest, 4), LAMBDA n :
    Then(ReadScript(n.rest), LAMBDA scriptSig :
    Then(Read(scriptSig.rest, 4), LAMBDA nSequence :
        ReadOk(WireTxIn(hash.v, ReadUInt32(n.v), scriptSig.v, ReadUInt32(nSequence.v)),
               nSequence.rest)))))

\* CTxOut: nValue, scriptPubKey
WriteTxOut(txout) == WriteInt64(txout.nValue) \o WriteScript(txout.scriptPubKey)

ReadTxOut(b) ==
    Then(Read(b, 8), LAMBDA nValue :
    Then(ReadScript(nValue.rest), LAMBDA scriptPubKey :
        ReadOk(TxOut(ReadInt64(nValue.v), scriptPubKey.v), scriptPubKey.rest)))

\* The elements of a vector, one after the other.
RECURSIVE WriteTxIns(_)
WriteTxIns(vin) ==
    IF vin = <<>> THEN <<>> ELSE WriteTxIn(Head(vin)) \o WriteTxIns(Tail(vin))

RECURSIVE WriteTxOuts(_)
WriteTxOuts(vout) ==
    IF vout = <<>> THEN <<>> ELSE WriteTxOut(Head(vout)) \o WriteTxOuts(Tail(vout))

RECURSIVE ReadTxIns(_, _)
ReadTxIns(b, n) ==
    IF n = 0 THEN ReadOk(<<>>, b)
    ELSE Then(ReadTxIn(b), LAMBDA first :
         Then(ReadTxIns(first.rest, n - 1), LAMBDA others :
             ReadOk(<<first.v>> \o others.v, others.rest)))

RECURSIVE ReadTxOuts(_, _)
ReadTxOuts(b, n) ==
    IF n = 0 THEN ReadOk(<<>>, b)
    ELSE Then(ReadTxOut(b), LAMBDA first :
         Then(ReadTxOuts(first.rest, n - 1), LAMBDA others :
             ReadOk(<<first.v>> \o others.v, others.rest)))

\* "ss << tx": nVersion, vin, vout, nLockTime
Serialize(tx) ==
    WriteInt32(tx.nVersion)
        \o WriteCompactSize(Len(tx.vin)) \o WriteTxIns(tx.vin)
        \o WriteCompactSize(Len(tx.vout)) \o WriteTxOuts(tx.vout)
        \o WriteUInt32(tx.nLockTime)

\* "ssData >> tx": the transaction at the front of the bytes and the bytes
\* after it, or the failure of the first read that fails.
Unserialize(b) ==
    Then(Read(b, 4), LAMBDA nVersion :
    Then(ReadCompactSize(nVersion.rest), LAMBDA nIn :
    Then(ReadTxIns(nIn.rest, nIn.v), LAMBDA vin :
    Then(ReadCompactSize(vin.rest), LAMBDA nOut :
    Then(ReadTxOuts(nOut.rest, nOut.v), LAMBDA vout :
    Then(Read(vout.rest, 4), LAMBDA nLockTime :
        ReadOk([nVersion |-> ReadInt32(nVersion.v), vin |-> vin.v, vout |-> vout.v,
                nLockTime |-> ReadUInt32(nLockTime.v)],
               nLockTime.rest)))))))

(***************************************************************************)
(* The decode of params[0] by decoderawtransaction, sendrawtransaction and *)
(* signrawtransaction, and the encode that ends createrawtransaction and   *)
(* signrawtransaction                                                      *)
(***************************************************************************)
\* The bytes of the transaction identifier t.
HashBytes(t) == <<t>> \o Repeat(0, HashWidth - 1)

\* 1000 * COIN and -1 as int64_t.
ThousandCoins == [hi |-> UInt32(23), lo |-> [hi |-> 18550, lo |-> 59392]]

MinusOne == [hi |-> [hi |-> 65535, lo |-> 65535], lo |-> [hi |-> 65535, lo |-> 65535]]

\* CMutableTransaction(): no inputs, no outputs
EmptyWire == [nVersion |-> 1, vin |-> <<>>, vout |-> <<>>, nLockTime |-> UInt32(0)]

\* A transaction as createrawtransaction assembles it: one unsigned input,
\* an output to an address and a commitment output.
BuiltWire ==
    [nVersion |-> 1,
     vin |-> <<WireTxIn(HashBytes(1), UInt32(0), <<>>, [hi |-> 65535, lo |-> 65535])>>,
     vout |-> <<TxOut(ThousandCoins, <<118, 169, 1, 7, 136, 172>>),
                TxOut([hi |-> UInt32(0), lo |-> UInt32(0)], <<106, 3, 171, 205, 239>>)>>,
     nLockTime |-> UInt32(0)]

\* A transaction with two inputs, one of them carrying an unlocking script,
\* a negative version, a negative amount and a lock time.
SignedWire ==
    [nVersion |-> -2,
     vin |-> <<WireTxIn(HashBytes(2), UInt32(65537), <<0, 81>>, UInt32(0)),
               WireTxIn(HashBytes(1), UInt32(1), <<>>, [hi |-> 65535, lo |-> 65535])>>,
     vout |-> <<TxOut(MinusOne, <<>>)>>,
     nLockTime |-> UInt32(500000)]

\* An input whose unlocking script has 253 bytes, the least size written
\* in three bytes.
LongTxIn == WireTxIn(HashBytes(2), UInt32(0), Repeat(81, 253), UInt32(1))

WireTxs == {EmptyWire, BuiltWire, SignedWire}

\* The most transactions a caller encodes back to back into params[0], and
\* the most inputs and outputs of a transaction a handler serializes.
MaxEncoded == 2
MaxWire == 2

\* The sequences of at most n elements of S.
RECURSIVE SeqsUpTo(_, _)
SeqsUpTo(S, n) ==
    IF n = 0 THEN {<<>>}
    ELSE SeqsUpTo(S, n - 1)
             \cup {Append(l, x) : l \in {k \in SeqsUpTo(S, n - 1) : Len(k) = n - 1}, x \in S}

\* The transactions a handler serializes: up to MaxWire inputs and up to
\* MaxWire outputs out of three of each.
Assembled ==
    LET ins == {BuiltWire.vin[1], SignedWire.vin[1], LongTxIn}
        outs == {BuiltWire.vout[1], BuiltWire.vout[2], SignedWire.vout[1]}
    IN  {[nVersion |-> t.nVersion, vin |-> vin, vout |-> vout, nLockTime |-> t.nLockTime] :
            t \in {BuiltWire, SignedWire}, vin \in SeqsUpTo(ins, MaxWire),
            vout \in SeqsUpTo(outs, MaxWire)}

\* Serialized transactions back to back.
RECURSIVE Encoded(_)
Encoded(list) ==
    IF list = <<>> THEN <<>> ELSE Serialize(Head(list)) \o Encoded(Tail(list))

\* Bytes that are not a transaction: a lone zero byte, and a version
\* followed by an input count above MAX_SIZE.
Junk == {<<0>>, <<1, 0, 0, 0, 254, 0, 0, 0, 3>>}

\* txData, the bytes of params[0] after ParseHexV: up to MaxEncoded
\* transactions back to back, cut anywhere, or followed by other bytes.
Buffers ==
    UNION {{SubSeq(Encoded(l), 1, k) : k \in 0..Len(Encoded(l))}
               \cup {Encoded(l) \o j : j \in Junk} : l \in SeqsUpTo(WireTxs, MaxEncoded)}

SingleDecoders == {"decoderawtransaction", "sendrawtransaction"}

\* "throw JSONRPCError(...)" out of the decode
DecodeThrow(err) ==
    /\ dPc' = "failed"
    /\ dResult' = err

\* "ss << rawTx; return HexStr(ss.begin(), ss.end())" by createrawtransaction
\* and, for mergedTx, by signrawtransaction: line 429-431, 763-766
EncodeReturn(tx) ==
    /\ dPc = "idle"
    /\ dEncoded' = <<tx>>
    /\ txData' = Serialize(tx)
    /\ dPc' = "encoded"
    /\ UNCHANGED <<dHandler, ssData, decoded, dTx, dResult>>
    /\ UNCHANGED <<world, svars, gvars, bvars, cvars, mvars>>

\* A handler receives bytes and wraps them in the stream ssData: line
\* 485-486, 594-595, 797-798.  The bytes are those a createrawtransaction or
\* signrawtransaction before returned, or any others.
DecodeCall(handler, data) ==
    /\ dPc \in {"idle", "encoded"}
    /\ dPc = "encoded" => data = txData
    /\ dHandler' = handler
    /\ txData' = data
    /\ ssData' = data
    /\ dPc' = IF handler \in SingleDecoders THEN "decode" ELSE "loop"
    /\ UNCHANGED <<dEncoded, decoded, dTx, dResult>>
    /\ UNCHANGED <<world, svars, gvars, bvars, cvars, mvars>>

\* "try { ssData >> tx; } catch (std::exception &e) { throw ... }" of
\* decoderawtransaction and sendrawtransaction: line 488-493, 805-810
DecodeSingle ==
    /\ dPc = "decode"
    /\ \E r \in {Unserialize(ssData)} :
           IF r.ok
           THEN /\ dTx' = r.v
                /\ ssData' = r.rest
                /\ dPc' = "decoded"
                /\ UNCHANGED dResult
           ELSE /\ DecodeThrow(JSONRPCError("RPC_DESERIALIZATION_ERROR", "TX decode failed"))
                /\ UNCHANGED <<dTx, ssData>>
    /\ UNCHANGED <<dHandler, txData, dEncoded, decoded>>
    /\ UNCHANGED <<world, svars, gvars, bvars, cvars, mvars>>

\* One pass of "while (!ssData.empty())" of signrawtransaction: line 597-607
DecodeLoop ==
    /\ dPc = "loop"
    /\ ssData # <<>>
    /\ \E r \in {Unserialize(ssData)} :
           IF r.ok
           THEN /\ decoded' = Append(decoded, r.v)
                /\ ssData' = r.rest
                /\ UNCHANGED <<dPc, dResult>>
           ELSE /\ DecodeThrow(JSONRPCError("RPC_DESERIALIZATION_ERROR", "TX decode failed"))
                /\ UNCHANGED <<decoded, ssData>>
    /\ UNCHANGED <<dHandler, txData, dEncoded, dTx>>
    /\ UNCHANGED <<world, svars, gvars, bvars, cvars, mvars>>

\* The loop ends on the empty stream; no variant is an error, else the
\* first variant becomes mergedTx: line 597, 609-613
DecodeLoopEnd ==
    /\ dPc = "loop"
    /\ ssData = <<>>
    /\ IF decoded = <<>>
       THEN /\ DecodeThrow(JSONRPCError("RPC_DESERIALIZATION_ERROR", "Missing transaction"))
            /\ UNCHANGED dTx
       ELSE /\ dTx' = decoded[1]
            /\ dPc' = "decoded"
            /\ UNCHANGED dResult
    /\ UNCHANGED <<dHandler, txData, ssData, dEncoded, decoded>>
    /\ UNCHANGED <<world, svars, gvars, bvars, cvars, mvars>>

\* The bytes the next call can bring.
Receivable ==
    IF dPc = "idle" THEN Buffers ELSE IF dPc = "encoded" THEN {txData} ELSE {}

CodecNext ==
    \/ \E tx \in Assembled : EncodeReturn(tx)
    \/ \E handler \in SingleDecoders \cup {"signrawtransaction"}, data \in Receivable :
           DecodeCall(handler, data)
    \/ DecodeSingle
    \/ DecodeLoop
    \/ DecodeLoopEnd

InitCodec == InitBuildWorld /\ InitSubmitLocals /\ InitSignLocals /\ InitOthers

SpecCodec == InitCodec /\ [][CodecNext]_vars

\* The handler runs on: a step of the decode that can be taken is taken.
SpecCodecFair ==
    InitCodec /\ [][CodecNext]_vars
        /\ WF_vars(DecodeSingle) /\ WF_vars(DecodeLoop) /\ WF_vars(DecodeLoopEnd)

(***************************************************************************)
(* Properties of sendrawtransaction                                        *)
(***************************************************************************)
Submitted == sPc = "done" /\ sRaw.ok

CallsOf(op) == {i \in 1..Len(sCalls) : sCalls[i].op = op}

Contains(str, part) ==
    \E i \in 1..(Len(str) - Len(part) + 1) : SubSeq(str, i, i + Len(part) - 1) = part

\* C1 (as stated): a Submit of an identifier that is pending, or confirmed at a
\* plausible height, fails with "transaction already in block chain".
C1_Original ==
    Submitted /\ (sPre.inPool \/ sPre.inChain)
        => sResult.error = "RPC_TRANSACTION_ALREADY_IN_CHAIN"

\* C1 (amended): a Submit of an identifier confirmed at a plausible height fails
\* with "transaction already in block chain"; a Submit of an identifier that is
\* pending and not confirmed does not fail, it returns the hex identifier.
C1_ResubmitOutcome ==
    Submitted =>
        /\ sPre.inChain =>
              /\ sResult.error = "RPC_TRANSACTION_ALREADY_IN_CHAIN"
              /\ ~sResult.returned
        /\ (sPre.inPool /\ ~sPre.inChain) =>
              sResult = Return(GetHex(GetHash(sRaw.tx)))

\* A second Submit of a transaction whose first Submit was accepted and which
\* is still pending has returned the identifier.
C1_Witness ==
    /\ Submitted
    /\ Len(sLog) = 2
    /\ sLog[1].tx = sLog[2].tx
    /\ sLog[1].admit = "accepted"
    /\ sPre.inPool
    /\ sLog[2].result.returned

\* C2 (as stated): Admit and Relay are called only for identifiers that were
\* neither pending nor confirmed when the Submit started.
C2_Original ==
    \A i \in CallsOf("Admit") \cup CallsOf("Relay") : ~sPre.inPool /\ ~sPre.inChain

\* C2 (amended): Admit is called only for identifiers that were neither pending
\* nor confirmed when the Submit started; Relay is called only for identifiers
\* that were not confirmed, and for a pending one it is the only call made.
C2_AdmitRelayTargets ==
    /\ \A i \in CallsOf("Admit") :
          ~sPre.inPool /\ ~sPre.inChain /\ sCalls[i].tx = GetHash(sRaw.tx)
    /\ \A i \in CallsOf("Relay") : ~sPre.inChain /\ sCalls[i].tx = GetHash(sRaw.tx)
    /\ (Submitted /\ sPre.inPool /\ ~sPre.inChain) =>
          sCalls = <<Call("Relay", GetHash(sRaw.tx), FALSE)>>

\* A Submit of a pending identifier has finished after relaying it.
C2_Witness ==
    /\ Submitted
    /\ sPre.inPool
    /\ CallsOf("Relay") # {}
    /\ CallsOf("Admit") = {}

\* C3 (as stated): a rejected admission fails with an error carrying both the
\* rejection code and the reason, whatever the kind of rejection; nothing is
\* notified, relayed or returned.
C3_Original ==
    (Submitted /\ sAdmit = "rejected") =>
        /\ ~sResult.returned
        /\ CallsOf("Notify") \cup CallsOf("Relay") = {}
        /\ Contains(sResult.message, ToString(state.code))
        /\ Contains(sResult.message, state.reason)

\* C3 (amended): a rejected admission fails, and nothing is notified, relayed
\* or returned. When the collaborator reports the transaction invalid the error
\* is RPC_TRANSACTION_REJECTED with "<code>: <reason>"; for any other rejection
\* it is RPC_TRANSACTION_ERROR with the reason alone, the code is not reported.
C3_RejectionError ==
    (Submitted /\ sAdmit = "rejected") =>
        /\ ~sResult.returned
        /\ sResult.value = ""
        /\ CallsOf("Notify") \cup CallsOf("Relay") = {}
        /\ state.mode = "invalid" =>
              /\ sResult.error = "RPC_TRANSACTION_REJECTED"
              /\ sResult.message = ToString(state.code) \o ": " \o state.reason
        /\ state.mode # "invalid" =>
              /\ sResult.error = "RPC_TRANSACTION_ERROR"
              /\ sResult.message = state.reason

\* A rejection that is not "invalid" and has a code has been reported.
C3_Witness ==
    /\ Submitted
    /\ sAdmit = "rejected"
    /\ state.mode = "error"
    /\ state.code # 0
    /\ sResult.error = "RPC_TRANSACTION_ERROR"

\* C4: when the identifier is neither pending nor confirmed and Admit accepts,
\* Submit calls NotifyAccepted then Relay, once each and in that order, never
\* relays before the admission succeeded, and returns the hex identifier.
C4_AcceptedSequence ==
    /\ (Submitted /\ sAdmit = "accepted") =>
          /\ sCalls = <<Call("Admit", GetHash(sRaw.tx), ~fOverrideFees),
                        Call("Notify", GetHash(sRaw.tx), FALSE),
                        Call("Relay", GetHash(sRaw.tx), FALSE)>>
          /\ sResult = Return(GetHex(GetHash(sRaw.tx)))
    /\ (~sPre.inPool /\ ~sPre.inChain) =>
          \A i \in CallsOf("Relay") :
              /\ sAdmit = "accepted"
              /\ i = 3
              /\ sCalls[1].op = "Admit"
              /\ sCalls[2].op = "Notify"

\* An accepted Submit has returned.
C4_Witness ==
    /\ Submitted
    /\ sAdmit = "accepted"
    /\ sResult.returned
    /\ Len(sCalls) = 3

(***************************************************************************)
(* Properties of signrawtransaction                                        *)
(***************************************************************************)
SignReturned == gPc = "done" /\ gResult.returned

\* The per-input loop was entered: keys, hints and sighash string were accepted.
LoopEntered == nHashType > 0

\* The coin the view holds for an input is available.
Resolved(txin) ==
    LET r == ViewGetCoins(view, pcoinsTip, mempool, txin.prevout.hash)
    IN  r.ok /\ IsAvailable(r.coins, txin.prevout.n)

\* The locking script of a resolved input.
LockingScript(txin) ==
    ViewGetCoins(view, pcoinsTip, mempool, txin.prevout.hash)
        .coins.vout[txin.prevout.n + 1].scriptPubKey

\* Input j (from 1) of tx is resolved and its script satisfies the locking script.
InputSatisfied(tx, j) ==
    /\ Resolved(tx.vin[j])
    /\ VerifyScript(tx.vin[j].scriptSig, LockingScript(tx.vin[j]), j - 1)

\* C5 as stated: once the variants are decoded and keys, hints and sighash
\* string are accepted, the call never aborts and ends by returning a
\* transaction and a completeness flag, whatever the variants are.
C5_Original ==
    /\ LoopEntered => gPc # "crashed"
    /\ (LoopEntered /\ gPc = "done") => (gResult.returned /\ gResult.error = "")

\* C6: the returned completeness flag is true exactly when every input of the
\* merge target is resolved to an available coin and its final unlocking
\* script verifies against the coin's locking script; with no inputs it is true.
C6_Completeness ==
    SignReturned =>
        (gResult.complete =
            \A j \in 1..Len(gResult.tx.vin) : InputSatisfied(gResult.tx, j))

\* Two inputs, the first fails verification, the second verifies: incomplete.
C6_Witness ==
    /\ SignReturned
    /\ Len(gResult.tx.vin) = 2
    /\ Resolved(gResult.tx.vin[1])
    /\ ~InputSatisfied(gResult.tx, 1)
    /\ InputSatisfied(gResult.tx, 2)
    /\ ~gResult.complete

\* The request was for one transaction with a single input, and that input
\* has no available coin in the view.
SingleUnresolved ==
    /\ SignReturned
    /\ Len(gRaw.txs[1].vin) = 1
    /\ ~Resolved(gRaw.txs[1].vin[1])

\* C7 as stated: a single unresolvable input comes back with an empty
\* unlocking script, whatever script it was submitted with, and the result is
\* incomplete.
C7_Original ==
    SingleUnresolved =>
        (~gResult.complete /\ gResult.tx.vin[1].scriptSig = <<>>)

\* C7: a single unresolvable input comes back with the unlocking script it was
\* submitted with (empty when it was submitted empty), and the result is
\* incomplete.
C7_UnresolvedUntouched ==
    SingleUnresolved =>
        (~gResult.complete
         /\ gResult.tx.vin[1].scriptSig = gRaw.txs[1].vin[1].scriptSig)

\* A single unresolvable input that was submitted with a script.
C7_Witness ==
    /\ SingleUnresolved
    /\ gRaw.txs[1].vin[1].scriptSig # <<>>
    /\ gResult.tx.vin[1].scriptSig # <<>>
    /\ ~gResult.complete

\* The request holds two variants of one transaction whose only input spends
\* the 2-of-3 multisig output of transaction 1, and the view resolves it.
MultisigRequest ==
    /\ SignReturned
    /\ Len(gRaw.txs) = 2
    /\ \A v \in 1..2 : /\ Len(gRaw.txs[v].vin) = 1
                       /\ gRaw.txs[v].vin[1].prevout = [hash |-> 1, n |-> 1]
    /\ Resolved(gRaw.txs[1].vin[1])
    /\ Shape(LockingScript(gRaw.txs[1].vin[1])).type = "multisig"

\* Key k contributes a signature of input 0: the store in use holds it, or a
\* variant carries its signature over that input.
Contributed(k) ==
    \/ k \in KeyStoreOf(keystoreRef, tempKeystore).keys
    \/ \E v \in 1..Len(gRaw.txs) :
          \E j \in 1..Len(gRaw.txs[v].vin[1].scriptSig) :
              CheckSig(gRaw.txs[v].vin[1].scriptSig[j], k, 0)

Contributors == {k \in KeyIds : Contributed(k)}

\* The first n members of a set of keys, in key order.
FirstKeys(S, n) == {k \in S : Cardinality({x \in S : x < k}) < n}

\* C8: merging two variants of a 2-of-3 multisig input leaves the signatures
\* of the first two contributing keys, in public-key order, taken from the
\* fresh signing and from every variant; the result is complete exactly when
\* at least two keys contributed.
C8_MultisigUnion ==
    MultisigRequest =>
        LET sc == gResult.tx.vin[1].scriptSig
            sigs == {j \in 1..Len(sc) : sc[j].t = "sig"}
        IN  /\ {sc[j].key : j \in sigs} = FirstKeys(Contributors, 2)
            /\ \A j \in sigs : CheckSig(sc[j], sc[j].key, 0)
            /\ \A a, b \in sigs : a < b => sc[a].key < sc[b].key
            /\ gResult.complete = (Cardinality(Contributors) >= 2)

\* Nothing is signed afresh; each variant brings one signature of its own and
\* the merged input is complete.
C8_Witness ==
    /\ MultisigRequest
    /\ KeyStoreOf(keystoreRef, tempKeystore).keys = {}
    /\ gRaw.txs[1].vin[1].scriptSig = <<Op0, Sig(1, 0, SIGHASH_ALL)>>
    /\ gRaw.txs[2].vin[1].scriptSig = <<Op0, Sig(3, 0, SIGHASH_NONE)>>
    /\ gResult.tx.vin[1].scriptSig = <<Op0, Sig(1, 0, SIGHASH_ALL), Sig(3, 0, SIGHASH_NONE)>>
    /\ gResult.complete

\* C9: the request holds the pending-pool lock only during the warming pass;
\* it is free at every later step (keys, hints, signing, merging, verifying,
\* returning or failing).
C9_LockOnlyWhileWarming ==
    /\ csMempool = "sign" => gPc = "warm"
    /\ gPc \in {"keys", "prevtxs", "hint", "loop", "sign", "merge", "verify",
                "done", "crashed"} => csMempool = "free"

\* A merge step runs after a warming pass that looked up an input.
C9_Witness == gPc = "merge" /\ nWarm > 0 /\ csMempool = "free"

\* The selectors the six recognised strings stand for.
ExpectedSigHash ==
    ("ALL" :> SIGHASH_ALL) @@ ("NONE" :> SIGHASH_NONE) @@ ("SINGLE" :> SIGHASH_SINGLE)
    @@ ("ALL|ANYONECANPAY" :> SIGHASH_ALL + SIGHASH_ANYONECANPAY)
    @@ ("NONE|ANYONECANPAY" :> SIGHASH_NONE + SIGHASH_ANYONECANPAY)
    @@ ("SINGLE|ANYONECANPAY" :> SIGHASH_SINGLE + SIGHASH_ANYONECANPAY)

\* C10: once params[3] is read, an absent string selects ALL, each of the six
\* recognised strings selects its own value (all six differ), and any other
\* string ends the request with RPC_INVALID_PARAMETER and nothing returned.
C10_SigHashSelector ==
    /\ Cardinality({ExpectedSigHash[str] : str \in DOMAIN ExpectedSigHash}) = 6
    /\ "sighash" \in DOMAIN gParams =>
          LET p == gParams["sighash"] IN
          IF ~p.given
          THEN nHashType = SIGHASH_ALL /\ gResult.error # "RPC_INVALID_PARAMETER"
          ELSE IF p.val \in DOMAIN ExpectedSigHash
          THEN nHashType = ExpectedSigHash[p.val]
               /\ gResult.error # "RPC_INVALID_PARAMETER"
          ELSE /\ gPc = "done"
               /\ gResult.error = "RPC_INVALID_PARAMETER"
               /\ ~gResult.returned

\* A request with "SINGLE|ANYONECANPAY" is served with that selector.
C10_Witness ==
    /\ SignReturned
    /\ "sighash" \in DOMAIN gParams
    /\ gParams["sighash"] = [given |-> TRUE, val |-> "SINGLE|ANYONECANPAY"]
    /\ nHashType = SIGHASH_SINGLE + SIGHASH_ANYONECANPAY
    /\ fHashSingle

\* The keys of the signatures a script carries.
SigKeysOf(scriptSig) ==
    {scriptSig[j].key : j \in {x \in 1..Len(scriptSig) : scriptSig[x].t = "sig"}}

\* The keys the strings of params[2] decode to.
GivenKeys == {SetString(gParams["keys"].val[j]).key : j \in 1..Len(gParams["keys"].val)}

\* SignSignature has just filled input nInput.
FreshlySigned == gPc = "merge" /\ nVariant = 0

\* C11: with a key list (even an empty one) the wallet is never asked and
\* every fresh signature is by a key of the list; a key that does not decode
\* ends the request with RPC_INVALID_ADDRESS_OR_KEY and no input signed.
\* Without a list the wallet was found unlocked before any input is signed
\* and the fresh signatures are by the wallet's keys.
C11_KeySelection ==
    "keys" \in DOMAIN gParams =>
        IF gParams["keys"].given
        THEN /\ "wallet" \notin DOMAIN gParams
             /\ gResult.error # "RPC_WALLET_UNLOCK_NEEDED"
             /\ FreshlySigned =>
                   SigKeysOf(mergedTx.vin[nInput + 1].scriptSig) \subseteq GivenKeys
             /\ (\E j \in 1..Len(gParams["keys"].val) :
                     ~SetString(gParams["keys"].val[j]).fGood)
                   => /\ gPc = "done"
                      /\ gResult.error = "RPC_INVALID_ADDRESS_OR_KEY"
                      /\ ~gResult.returned
                      /\ mergedTx = gRaw.txs[1]
        ELSE /\ "wallet" \in DOMAIN gParams
             /\ gPc \in {"prevtxs", "hint", "loop", "sign", "merge", "verify"}
                   => gParams["wallet"] = "unlocked"
             /\ SignReturned => gParams["wallet"] = "unlocked"
             /\ gParams["wallet"] # "unlocked" => mergedTx = gRaw.txs[1]
             /\ FreshlySigned =>
                   SigKeysOf(mergedTx.vin[nInput + 1].scriptSig) \subseteq WalletKeyStore.keys

\* The list holds keys 3 and 1; the multisig input is signed by exactly those,
\* key 3 being unknown to the wallet.
C11_Witness ==
    /\ FreshlySigned
    /\ "keys" \in DOMAIN gParams
    /\ gParams["keys"] = Param(<<"K3", "K1">>)
    /\ SigKeysOf(mergedTx.vin[nInput + 1].scriptSig) = {1, 3}

\* A hint that passed the object and index checks is about to be applied.
HintReady ==
    /\ gPc = "hint"
    /\ prevTxs # <<>>
    /\ Head(prevTxs).isObj
    /\ Head(prevTxs).vout >= 0

\* What the view answers for the txid of the hint about to be applied.
HintLookup == ViewGetCoins(view, pcoinsTip, mempool, Head(prevTxs).txid)

\* The request has ended with the scriptPubKey-mismatch error.
MismatchThrown(result) ==
    /\ result.error = "RPC_DESERIALIZATION_ERROR"
    /\ Contains(result.message, "Previous output scriptPubKey mismatch")
    /\ ~result.returned

\* C12 as stated: a hint for a txid the view resolves fails with the mismatch
\* error whenever the script recorded at its index differs from the supplied
\* one, a spent output included.
C12_Original ==
    [][(/\ HintReady
        /\ HintLookup.ok
        /\ Head(prevTxs).vout < Len(HintLookup.coins.vout)
        /\ HintLookup.coins.vout[Head(prevTxs).vout + 1].scriptPubKey
              # Head(prevTxs).scriptPubKey)
       => (gPc' = "done" /\ MismatchThrown(gResult'))]_vars

\* C12: a hint fails with the mismatch error exactly when the view resolves
\* its txid, the output at its index is available (recorded and unspent) and
\* the recorded script differs from the supplied one; no transaction is
\* returned then. Over a spent output the hint is installed without error.
C12_MismatchOnlyIfAvailable ==
    [][HintReady =>
          ((gPc' = "done" /\ MismatchThrown(gResult'))
           <=> (/\ HintLookup.ok
                /\ IsAvailable(HintLookup.coins, Head(prevTxs).vout)
                /\ HintLookup.coins.vout[Head(prevTxs).vout + 1].scriptPubKey
                      # Head(prevTxs).scriptPubKey))]_vars

\* A hint contradicting the unspent first output of transaction 1 was refused.
C12_Witness ==
    /\ gPc = "done"
    /\ MismatchThrown(gResult)
    /\ prevTxs # <<>>
    /\ Head(prevTxs) = Hint(1, 0, "PKH2", "")
    /\ IsAvailable(HintLookup.coins, 0)

\* C13: after a hint (txid, index, script) is applied without error, the view
\* resolves txid to coins whose output at index is available, carries the
\* supplied script and has amount 0, whatever the view held for txid before.
C13_InjectThenLookup ==
    [][(HintReady /\ gPc' = "hint") =>
          LET p == Head(prevTxs)
              after == ViewGetCoins(view', pcoinsTip', mempool', p.txid)
          IN  /\ after.ok
              /\ IsAvailable(after.coins, p.vout)
              /\ after.coins.vout[p.vout + 1] = TxOut(0, p.scriptPubKey)]_vars

\* Hints were applied to transaction 1 known with two outputs: one beyond its
\* recorded outputs, or one repeating the script of its first output.
C13_Witness ==
    /\ gPc = "hint"
    /\ prevTxs = <<>>
    /\ 1 \in DOMAIN pcoinsTip
    /\ 1 \in DOMAIN view.cacheCoins
    /\ \/ /\ Len(view.cacheCoins[1].vout) = 3
          /\ view.cacheCoins[1].vout[3] = TxOut(0, "PKH2")
          /\ view.cacheCoins[1].vout[2] = TxOut(7, "MS23")
       \/ /\ pcoinsTip[1].vout[1] = TxOut(5, "PKH1")
          /\ view.cacheCoins[1].vout[1] = TxOut(0, "PKH1")

(***************************************************************************)
(* Properties of createrawtransaction                                      *)
(***************************************************************************)
\* The entry has a txid, an integer vout and an integer or absent sequence.
WellFormedEntry(e) ==
    e.txid # 0 /\ e.vout.type = "int" /\ e.sequence.type \in {"int", "null"}

\* The JSON integer is negative.
Negative(v) == v.h < 0

\* The input the entry asks for: its txid and index, an empty unlocking
\* script, and its sequence override or the maximum sequence.
RequestedInput(e, txin) ==
    /\ txin.prevout.hash = e.txid
    /\ e.vout.h = 0 /\ txin.prevout.n = e.vout.l
    /\ txin.scriptSig = <<>>
    /\ IF e.sequence.type = "int"
       THEN /\ e.sequence.h \in {0, 1}
            /\ txin.nSequence = [hi |-> 32768 * e.sequence.h + e.sequence.l \div 65536,
                                 lo |-> e.sequence.l % 65536]
       ELSE txin.nSequence = [hi |-> 65535, lo |-> 65535]

\* C14 as stated: the entries visited so far gave one input each, in order,
\* with the given txid and index, an empty unlocking script and the sequence
\* override or the maximum; the request fails with RPC_INVALID_PARAMETER and
\* returns nothing exactly when an entry has a negative index or a negative
\* sequence override.
C14_Original ==
    (bPc # "idle" /\ \A j \in 1..Len(inputs) : WellFormedEntry(inputs[j])) =>
        IF \E j \in 1..Len(inputs) :
              \/ Negative(inputs[j].vout)
              \/ inputs[j].sequence.type = "int" /\ Negative(inputs[j].sequence)
        THEN /\ bPc = "done"
             /\ bResult.error = "RPC_INVALID_PARAMETER"
             /\ ~bResult.returned
             /\ bResult.tx = EmptyTx
        ELSE /\ (bPc = "done" /\ ~bResult.returned) => sendTo # <<>>
             /\ Len(rawTx.vin) = Len(inputs)
             /\ \A j \in 1..Len(inputs) : RequestedInput(inputs[j], rawTx.vin[j])
             /\ bResult.returned => bResult.tx.vin = rawTx.vin


\* The text is a decimal integer: an optional minus sign, then digits only.
IsIntegerText(t) ==
    LET d == IF t # "" /\ SubSeq(t, 1, 1) = "-" THEN SubSeq(t, 2, Len(t)) ELSE t
    IN  d # "" /\ \A j \in 1..Len(d) : IsDigit(SubSeq(d, j, j))

\* The pair is a "data" pair whose value is <hex> or <hex>:<integer>.
DataForm(s) ==
    /\ s.name = "data"
    /\ Len(Split(s.str)) \in {1, 2}
    /\ IsHex(Split(s.str)[1])
    /\ Len(Split(s.str)) = 2 => IsIntegerText(Split(s.str)[2])

\* max(0, integer) multiples of the base unit, 0 without an integer.
DataFormAmount(s) ==
    LET t == Split(s.str)
    IN  IF Len(t) = 1 \/ SubSeq(t[2], 1, 1) = "-" \/ StripZeros(t[2]) = "0"
        THEN ZeroAmount
        ELSE Amount(FALSE, StripZeros(t[2]) \o "00000000")

\* C15 as stated: every "data" pair of the form <hex> or <hex>:<integer>
\* gives an output, at its position, whose script is the null-data opcode
\* followed by the decoded bytes and whose amount is max(0, integer)
\* multiples of the base unit.
C15_Original ==
    \A k \in 1..Len(sendTo) : DataForm(sendTo[k]) =>
        /\ k <= Len(rawTx.vout)
        /\ rawTx.vout[k] = TxOut(DataFormAmount(sendTo[k]),
                                 NullDataScript(ParseHex(Split(sendTo[k].str)[1])))
        /\ bResult.returned => bResult.tx.vout[k] = rawTx.vout[k]


\* The request failed with the given code and returned no transaction.
BuildFailed(code) ==
    /\ bPc = "done"
    /\ bResult.error = code
    /\ ~bResult.returned
    /\ bResult.tx = EmptyTx

\* The key of pair k of the output spec already appeared as a key before it.
RepeatedKey(k) == \E j \in 1..(k - 1) : sendTo[j].name = sendTo[k].name

\* C16: a visited pair whose key is not "data" and not a valid address makes
\* the request fail with RPC_INVALID_ADDRESS_OR_KEY, and one whose valid
\* address was a key before makes it fail with RPC_INVALID_PARAMETER
\* "duplicated address", at whatever position the pair sits; no transaction
\* is returned, not even the one built from the pairs before it.
C16_AddressFailures ==
    \A k \in 1..Len(sendTo) : sendTo[k].name # "data" =>
        /\ ~AddressOf(sendTo[k].name).valid =>
              /\ BuildFailed("RPC_INVALID_ADDRESS_OR_KEY")
              /\ bResult.message = "Invalid Smileycoin address: " \o sendTo[k].name
        /\ (AddressOf(sendTo[k].name).valid /\ RepeatedKey(k)) =>
              /\ BuildFailed("RPC_INVALID_PARAMETER")
              /\ bResult.message =
                     "Invalid parameter, duplicated address: " \o sendTo[k].name

\* A repeated address after the first pair failed the request although the
\* pairs before it had already given outputs.
C16_Witness ==
    /\ Len(sendTo) >= 2
    /\ sendTo[Len(sendTo)].name # "data"
    /\ AddressOf(sendTo[Len(sendTo)].name).valid
    /\ RepeatedKey(Len(sendTo))
    /\ rawTx.vout # <<>>
    /\ BuildFailed("RPC_INVALID_PARAMETER")


(***************************************************************************)
(* Properties of the token protocol                                        *)
(***************************************************************************)
\* The funding transaction was fetched and its outputs were scanned.
Located == inputTransaction # NoFunding /\ mPc # "locate"

\* The positions, from 1, of the funding outputs of exactly 1001 coins.
FundingMatches ==
    {j \in 1..Len(inputTransaction.vout) :
        inputTransaction.vout[j].nValue = Amount(FALSE, "100100000000")}

\* C17 as stated: the funding index is the index of the first output of the
\* funding transaction whose amount is exactly 1001 coins, and 0 when there
\* is none; it is always an index of an output of the funding transaction,
\* and it is the index the minting input refers to.
C17_Original ==
    Located =>
        /\ IF FundingMatches # {}
           THEN /\ nOutput + 1 \in FundingMatches
                /\ \A j \in FundingMatches : nOutput + 1 <= j
           ELSE nOutput = 0
        /\ nOutput \in 0..(Len(inputTransaction.vout) - 1)
        /\ mintTx.vin # <<>> => mintTx.vin[1].prevout.n = nOutput


\* The minting transaction was built from the funding output, the address
\* and the token.
MintBuilt == mPc \in {"sign", "submit", "relay"} \/ (mPc = "done" /\ mHash # 0)

\* C18: the transaction inittoken builds has one input, the output of the
\* funding transaction at the located index, and two outputs in this order:
\* 1000 coins to the destination address, then amount 0 with the null-data
\* opcode followed by the bytes of the token identifier; the anchor given to
\* CreateToken is the identifier of that funding transaction.
C18_MintTransaction ==
    MintBuilt =>
        /\ Len(mintTx.vin) = 1
        /\ mintTx.vin[1].prevout = [hash |-> inputTransaction.txid, n |-> nOutput]
        /\ Len(mintTx.vout) = 2
        /\ mintTx.vout[1].nValue = Amount(FALSE, "100000000000")
        /\ mintTx.vout[1].scriptPubKey =
               [op |-> "DESTINATION", data |-> <<>>,
                dest |-> AddressOf(mParams.address).dest]
        /\ mintTx.vout[2].nValue = Amount(FALSE, "0")
        /\ mintTx.vout[2].scriptPubKey =
               [op |-> "OP_RETURN", data |-> ParseHex(token.id), dest |-> ""]
        /\ SubSeq(token.filestring, Len(token.filestring) - 63, Len(token.filestring))
               = Chars(GetHex256(inputTransaction.txid))

\* A request returned after spending the second output of a funding
\* transaction whose first output is change.
C18_Witness ==
    /\ mPc = "done"
    /\ mResult.returned
    /\ nOutput = 1
    /\ Len(inputTransaction.vout) = 2
    /\ Len(mintTx.vout) = 2

\* Two lowercase hex digits per byte, the high half first.
IsHexOf(str, bytes) ==
    /\ Len(str) = 2 * Len(bytes)
    /\ \A j \in 1..Len(bytes) :
          /\ SubSeq(str, 2 * j - 1, 2 * j - 1) = HexDigit(bytes[j] \div 16)
          /\ SubSeq(str, 2 * j, 2 * j) = HexDigit(bytes[j] % 16)

\* C19: the token identifier is the lowercase hex encoding of the signature
\* bytes, two digits per byte with the high half first, and decodes back to
\* those bytes; the payload of the commitment output of the minting
\* transaction, hex-encoded, is the token identifier the same request
\* returns.
C19_TokenIdRoundTrip ==
    token # NoToken =>
        /\ IsHexOf(token.id, token.signature)
        /\ ParseHex(token.id) = token.signature
        /\ MintBuilt => mintTx.vout[2].scriptPubKey.data = token.signature
        /\ mResult.returned =>
              /\ mResult.value[1].name = "Token ID"
              /\ IsHexOf(mResult.value[1].value, mintTx.vout[2].scriptPubKey.data)

\* A request returned the identifier "abcdef" for the signature bytes ab cd
\* ef, which all have the high bit set.
C19_Witness ==
    /\ mPc = "done"
    /\ mResult.returned
    /\ token.signature = <<171, 205, 239>>
    /\ mResult.value[1].value = "abcdef"

\* The first 64 bytes of the file's bytes followed by the anchor.
Preimage(call) == SubSeq(call.file \o Chars(call.previousTxId), 1, 64)

\* C20 as stated: the digest is a function of the first 64 bytes of the
\* file's bytes followed by the hex anchor: two calls whose preimages agree
\* on these bytes, and so two calls with the same file and anchor, compute
\* the same digest whatever key each one makes.
C20_Original ==
    (cPc \in {"created", "done"} /\ cPrev.made /\ Preimage(cPrev) = Preimage(cParams))
        => cPrev.hash = cParams.hash

\* A request that ended with the error of the address check.
InvalidAddressRaised ==
    mPc = "done" /\ mResult.error = "RPC_INVALID_ADDRESS_OR_KEY"

\* C21 as stated: a request whose address is not valid ends with the error
\* of the address check and, when that error is raised, the wallet has not
\* been asked for a funding transaction, none has entered the pending pool
\* and no token keypair has been made.
C21_Original ==
    /\ (mPc = "done" /\ ~AddressOf(mParams.address).valid) => InvalidAddressRaised
    /\ InvalidAddressRaised =>
          /\ mCalls = <<>>
          /\ inputtxid = 0
          /\ mempool = {}
          /\ token = NoToken

(***************************************************************************)
(* Properties of the decode and the encode                                 *)
(***************************************************************************)
\* The bytes are one serialized transaction and nothing else.
HoldsExactlyOne(b) == Unserialize(b).ok /\ Unserialize(b).rest = <<>>

\* C22 as stated: the decode of decoderawtransaction and sendrawtransaction
\* succeeds only on bytes that are exactly one serialized transaction, which
\* is the one it yields, and fails with RPC_DESERIALIZATION_ERROR on bytes
\* that are cut short and on bytes that go on after the transaction.
C22_Original ==
    dHandler \in SingleDecoders =>
        /\ dPc = "decoded" => HoldsExactlyOne(txData) /\ txData = Serialize(dTx)
        /\ dPc = "failed" =>
              ~HoldsExactlyOne(txData) /\ dResult.error = "RPC_DESERIALIZATION_ERROR"

\* The decode loop of signrawtransaction has ended.
LoopEnded == dHandler = "signrawtransaction" /\ dPc \in {"decoded", "failed"}

C24_RoundTrip ==
    dEncoded # <<>> =>
        /\ dPc # "failed"
        /\ dPc = "decoded" =>
              /\ dTx = dEncoded[1]
              /\ ssData = <<>>
              /\ dHandler = "signrawtransaction" => decoded = dEncoded

\* A transaction with two inputs, one carrying a script of 253 bytes, and
\* two outputs, one with a negative amount, came back from its bytes.
C24_Witness ==
    /\ dPc = "decoded"
    /\ dEncoded # <<>>
    /\ Len(dTx.vin) = 2
    /\ Len(dTx.vout) = 2
    /\ \E j \in 1..2 : Len(dTx.vin[j].scriptSig) = 253
    /\ \E j \in 1..2 : dTx.vout[j].nValue = MinusOne
    /\ dTx.nVersion = -2

(***************************************************************************)
(* Properties of the per-input loop of signrawtransaction                  *)
(***************************************************************************)
\* The request is inside the loop over the inputs of mergedTx.
InLoop == gPc \in {"loop", "sign", "merge", "verify"}

\* Where input j (from 0) of tx stands when the loop has passed the first
\* "passed" inputs.
InputState(tx, passed, j) ==
    IF j >= passed THEN "Unsigned"
    ELSE IF ~Resolved(tx.vin[j + 1]) THEN "UnresolvedIncomplete"
    ELSE IF VerifyScript(tx.vin[j + 1].scriptSig, LockingScript(tx.vin[j + 1]), j)
    THEN "SignedComplete"
    ELSE "SignedIncomplete"

\* The loop passes the inputs in increasing order one at a time, an input is
\* passed only unresolved or after its verification, and an input the loop
\* has passed keeps its script and its state.
PassedInOrder ==
    /\ nInput' \in {nInput, nInput + 1}
    /\ gPc \in {"sign", "merge", "verify"} => Resolved(mergedTx.vin[nInput + 1])
    /\ nInput' = nInput + 1 =>
          \/ gPc = "verify"
          \/ gPc = "loop" /\ ~Resolved(mergedTx.vin[nInput + 1])
    /\ \A j \in 0..(nInput - 1) :
          /\ mergedTx'.vin[j + 1] = mergedTx.vin[j + 1]
          /\ InputState(mergedTx', nInput', j) = InputState(mergedTx, nInput, j)
          /\ InputState(mergedTx, nInput, j) # "Unsigned"
    /\ gPc' = "done" => nInput = Len(mergedTx.vin)

\* C25 as stated: the loop passes the inputs of the merge target in
\* increasing order, each exactly once, every input going from Unsigned
\* through resolution to one terminal state that it keeps; the request does
\* not stop before every input is passed.
C25_Original == [][InLoop => (PassedInOrder /\ gPc' # "crashed")]_vars

\* The selector, without its ANYONECANPAY bit, is SINGLE and input i (from
\* 0) has no output of its index.
Excluded(i) ==
    /\ BitAndNot(nHashType, SIGHASH_ANYONECANPAY) = SIGHASH_SINGLE
    /\ i >= Len(mergedTx.vout)

\* C26: the step that signs a resolved input i leaves it with the script
\* SignSignature makes from the keys, or with the empty script when the
\* selector without ANYONECANPAY is SINGLE and i is not below the number of
\* outputs; either way the input then goes through the merge of every
\* variant and, when the merge has ended, through verification.
C26_SingleSkip ==
    [][/\ gPc = "sign" =>
             /\ mergedTx'.vin[nInput + 1].scriptSig =
                    IF Excluded(nInput) THEN <<>>
                    ELSE SignSignature(KeyStoreOf(keystoreRef, tempKeystore), prevPubKey,
                                       nInput, nHashType)
             /\ gPc' = "merge"
             /\ nVariant' = 0
             /\ nInput' = nInput
       /\ (gPc = "merge" /\ gPc' \notin {"merge", "crashed"}) =>
             (gPc' = "verify" /\ nVariant' = Len(txVariants) /\ nInput' = nInput)
       /\ gPc = "verify" =>
             fComplete' = (fComplete /\ InputSatisfied(mergedTx, nInput + 1))]_vars

\* The second input, which came with a script, has just been cleared and
\* not signed under SINGLE|ANYONECANPAY, the transaction having one output.
C26_Witness ==
    /\ FreshlySigned
    /\ nHashType = BitOr(SIGHASH_SINGLE, SIGHASH_ANYONECANPAY)
    /\ nInput = 1
    /\ Len(mergedTx.vout) = 1
    /\ txVariants[1].vin[2].scriptSig # <<>>
    /\ mergedTx.vin[2].scriptSig = <<>>

\* The script of input nInput has been merged and fails verification.
FailsVerification ==
    /\ gPc = "verify"
    /\ ~VerifyScript(mergedTx.vin[nInput + 1].scriptSig, prevPubKey, nInput)

\* C27: the verification step that fails sets fComplete to false and
\* leaves the input with the merged script; no later step of the loop
\* changes that input or sets fComplete back, and the transaction and the
\* flag returned are mergedTx and fComplete.
C27_FailedKept ==
    [][/\ FailsVerification =>
             /\ ~fComplete'
             /\ mergedTx'.vin[nInput + 1] = mergedTx.vin[nInput + 1]
       /\ InLoop =>
             /\ ~fComplete => ~fComplete'
             /\ \A j \in 1..nInput : mergedTx'.vin[j] = mergedTx.vin[j]
       /\ (gPc # "done" /\ gPc' = "done" /\ gResult'.returned) =>
             (gResult'.tx = mergedTx /\ gResult'.complete = fComplete)]_vars

\* A returned transaction with a resolved input whose script fails
\* verification and is neither empty nor the script the input came with.
C27_Witness ==
    /\ SignReturned
    /\ ~gResult.complete
    /\ \E j \in 1..Len(gResult.tx.vin) :
          /\ Resolved(gResult.tx.vin[j])
          /\ ~InputSatisfied(gResult.tx, j)
          /\ gResult.tx.vin[j].scriptSig # <<>>
          /\ gResult.tx.vin[j].scriptSig # gRaw.txs[1].vin[j].scriptSig

(***************************************************************************)
(* Properties of the view of signrawtransaction                            *)
(***************************************************************************)
\* The warming pass is over: the request has left the scope of the lock.
AfterWarming == gPc \in {"keys", "prevtxs", "hint", "loop", "sign", "merge", "verify"}

\* The txids of the hints applied so far.
Injected ==
    IF "prevTxs" \in DOMAIN gParams /\ gParams["prevTxs"].given
    THEN LET all == gParams["prevTxs"].val
         IN  {all[j].txid : j \in 1..(Len(all) - Len(prevTxs))}
    ELSE {}

\* C28: once the warming pass is over the backend of the view is
\* viewDummy and a lookup succeeds exactly for the txids the cache holds,
\* which are among the txids of the merge target's inputs and of the hints
\* applied; whatever another operation does to the pending pool and the
\* confirmed coins, every lookup, and so which inputs are resolved, stays
\* as it was, a lookup changing only for the txid of a hint being applied.
C28_OverlayOnly ==
    [][AfterWarming =>
          /\ view.base = "viewDummy"
          /\ view'.base = "viewDummy"
          /\ DOMAIN view.cacheCoins \subseteq
                 {mergedTx.vin[j].prevout.hash : j \in 1..Len(mergedTx.vin)} \cup Injected
          /\ \A txid \in TxIds :
                LET before == ViewGetCoins(view, pcoinsTip, mempool, txid)
                    after == ViewGetCoins(view', pcoinsTip', mempool', txid)
                IN  /\ before.ok <=> txid \in DOMAIN view.cacheCoins
                    /\ before.view = view
                    /\ \/ (after.ok = before.ok /\ after.coins = before.coins)
                       \/ (gPc = "hint" /\ prevTxs # <<>> /\ Head(prevTxs).txid = txid)
          /\ \A j \in 1..Len(mergedTx.vin) :
                Resolved(mergedTx.vin[j])' = Resolved(mergedTx.vin[j])
                    \/ (gPc = "hint" /\ prevTxs # <<>>
                           /\ Head(prevTxs).txid = mergedTx.vin[j].prevout.hash)]_vars

\* A request returned with an input of transaction 1 unresolved although
\* transaction 1 is in the pending pool: it entered the pool after the
\* warming pass.
C28_Witness ==
    /\ SignReturned
    /\ nBlocks > 0
    /\ mempool = {1}
    /\ 1 \notin DOMAIN view.cacheCoins
    /\ \E j \in 1..Len(gResult.tx.vin) : gResult.tx.vin[j].prevout.hash = 1
    /\ ~gResult.complete

\* Output n (from 0) of txid is available in the cache of view v.
Cached(v, txid, n) ==
    txid \in DOMAIN v.cacheCoins /\ IsAvailable(v.cacheCoins[txid], n)

\* The step applies a hint to output n of txid.
Injects(txid, n) ==
    /\ gPc = "hint"
    /\ prevTxs # <<>>
    /\ Head(prevTxs).txid = txid
    /\ Head(prevTxs).vout = n

\* C29: during a request no step takes a txid out of the cache of the view
\* and an output that is available in it stays available; such an output
\* changes only when a hint with the same script is applied to it, which
\* leaves the script and sets the amount to 0.
C29_OverlayGrows ==
    [][\A txid \in DOMAIN view.cacheCoins :
          /\ txid \in DOMAIN view'.cacheCoins
          /\ \A n \in 0..(Len(view.cacheCoins[txid].vout) - 1) :
                Cached(view, txid, n) =>
                    /\ Cached(view', txid, n)
                    /\ \/ view'.cacheCoins[txid].vout[n + 1] = view.cacheCoins[txid].vout[n + 1]
                       \/ /\ Injects(txid, n)
                          /\ Head(prevTxs).scriptPubKey =
                                 view.cacheCoins[txid].vout[n + 1].scriptPubKey
                          /\ view'.cacheCoins[txid].vout[n + 1] =
                                 TxOut(0, view.cacheCoins[txid].vout[n + 1].scriptPubKey)]_vars

\* The request went on past a hint that repeated the script of the first
\* output of transaction 1: that output now has amount 0, the second output
\* is as it was fetched.
C29_Witness ==
    /\ InLoop
    /\ 1 \in DOMAIN view.cacheCoins
    /\ view.cacheCoins[1].vout = <<TxOut(0, "PKH1"), TxOut(7, "MS23")>>
    /\ Injected = {1}

(***************************************************************************)
(* Properties of the outputs of createrawtransaction                       *)
(***************************************************************************)
\* The locking script pair s of params[1] asks for.
ScriptAskedFor(s) ==
    IF s.name = "data"
    THEN [op |-> "OP_RETURN", data |-> ParseHex(Split(s.str)[1]), dest |-> ""]
    ELSE [op |-> "DESTINATION", data |-> <<>>, dest |-> AddressOf(s.name).dest]

\* C30: as long as no pair has failed, and so when the request returns,
\* the transaction has one output per pair visited, in the order of the
\* pairs: output k carries the commitment script over the bytes of pair k
\* when its key is "data", whether or not an earlier pair was "data" too,
\* and else the script of the pair's address with the pair's amount.
C30_OutputPerEntry ==
    bResult.error = "" =>
        /\ Len(rawTx.vout) = Len(sendTo)
        /\ \A k \in 1..Len(sendTo) :
              /\ rawTx.vout[k].scriptPubKey = ScriptAskedFor(sendTo[k])
              /\ sendTo[k].name # "data" => rawTx.vout[k].nValue = sendTo[k].nAmount
        /\ bResult.returned => bResult.tx.vout = rawTx.vout

\* A request returned three outputs for a "data" pair, an address and a
\* second "data" pair with other bytes.
C30_Witness ==
    /\ bPc = "done"
    /\ bResult.returned
    /\ Len(sendTo) = 3
    /\ sendTo[1].name = "data"
    /\ sendTo[2].name # "data"
    /\ sendTo[3].name = "data"
    /\ bResult.tx.vout[1].scriptPubKey # bResult.tx.vout[3].scriptPubKey

(***************************************************************************)
(* Properties of the key stores of signrawtransaction                      *)
(***************************************************************************)
\* The hint being applied carries a redeem script.
RedeemSupplied == gPc = "hint" /\ prevTxs # <<>> /\ Head(prevTxs).redeemScript # ""

\* C31: while a request runs, the scripts of tempKeystore change only when
\* a hint is applied with given keys and a pay-to-script-hash locking
\* script, and then by the hint's redeem script alone; the keys of
\* tempKeystore do not change with it.  Without given keys no script is
\* recorded, and the store that then signs is the wallet's as it was, which
\* holds no script.
C31_RedeemRecording ==
    [][/\ (gPc # "idle" /\ tempKeystore'.scripts # tempKeystore.scripts) =>
             /\ RedeemSupplied
             /\ fGivenKeys
             /\ IsPayToScriptHash(Head(prevTxs).scriptPubKey)
             /\ tempKeystore'.scripts =
                   tempKeystore.scripts \cup {Head(prevTxs).redeemScript}
             /\ tempKeystore'.keys = tempKeystore.keys
       /\ (RedeemSupplied /\ ~fGivenKeys) => tempKeystore' = tempKeystore
       /\ ~fGivenKeys' =>
             /\ tempKeystore' = EmptyKeyStore
             /\ gPc' \in {"loop", "sign", "merge", "verify"} =>
                   /\ keystoreRef' = "pwalletMain"
                   /\ KeyStoreOf(keystoreRef', tempKeystore') = WalletKeyStore
                   /\ WalletKeyStore.scripts = {}]_vars

\* A request without given keys returned after a hint with a
\* pay-to-script-hash locking script and a redeem script was applied.
C31_Witness ==
    /\ gPc = "done"
    /\ gResult.returned
    /\ ~fGivenKeys
    /\ keystoreRef = "pwalletMain"
    /\ "prevTxs" \in DOMAIN gParams
    /\ gParams["prevTxs"].given
    /\ \E j \in 1..Len(gParams["prevTxs"].val) :
          /\ gParams["prevTxs"].val[j].redeemScript # ""
          /\ IsPayToScriptHash(gParams["prevTxs"].val[j].scriptPubKey)
    /\ tempKeystore.scripts = {}

(***************************************************************************)
(* Properties of the merge step of signrawtransaction                      *)
(***************************************************************************)
\* The merge step reads txv.vin[nInput] of the variant it has come to.
MergeReads ==
    /\ gPc = "merge"
    /\ nVariant < VariantsMerged(txVariants)
    /\ gPc' = "crashed" \/ nVariant' = nVariant + 1

\* C32: every read of a variant's input by the merge step is at an index
\* below that variant's input count.
C32_Original ==
    [][MergeReads => nInput < Len(txVariants[nVariant + 1].vin)]_vars

(***************************************************************************)
(* Properties of the merge target of signrawtransaction                    *)
(***************************************************************************)
\* Transaction tx is transaction first but for the unlocking scripts of the
\* inputs of first that are resolved.
SameButResolvedScripts(tx, first) ==
    /\ tx.nVersion = first.nVersion
    /\ tx.nLockTime = first.nLockTime
    /\ tx.vout = first.vout
    /\ Len(tx.vin) = Len(first.vin)
    /\ \A j \in 1..Len(first.vin) :
          /\ tx.vin[j].prevout = first.vin[j].prevout
          /\ tx.vin[j].nSequence = first.vin[j].nSequence
          /\ ~Resolved(first.vin[j]) => tx.vin[j].scriptSig = first.vin[j].scriptSig

\* C33: from the moment the merge target is made, through every pass of the
\* loop, and in the transaction returned, the merge target is the first
\* decoded variant but for the unlocking scripts of resolved inputs.
C33_OnlyScriptsChange ==
    /\ gPc \in {"lock", "warm", "keys", "prevtxs", "hint", "loop", "sign", "merge", "verify"}
          => SameButResolvedScripts(mergedTx, gRaw.txs[1])
    /\ SignReturned => SameButResolvedScripts(gResult.tx, gRaw.txs[1])

\* The request was for the versioned transaction followed by a variant of
\* another version; the first input was resolved and signed, the second was
\* not resolved and kept its script.
C33_Witness ==
    /\ SignReturned
    /\ Len(gRaw.txs) = 2
    /\ gRaw.txs[1] = Versioned
    /\ gRaw.txs[2].nVersion # Versioned.nVersion
    /\ Resolved(Versioned.vin[1])
    /\ ~Resolved(Versioned.vin[2])
    /\ gResult.tx.vin[1].scriptSig # <<>>
    /\ gResult.tx.vin[2].scriptSig = Versioned.vin[2].scriptSig
    /\ gResult.tx # Versioned

(***************************************************************************)
(* Properties of the submission by inittoken                               *)
(***************************************************************************)
\* inittoken has offered its transaction to the pending pool.
MintAdmitCalled == \E j \in 1..Len(mCalls) : mCalls[j] = Call("Admit", mHash, TRUE)

\* C34: inittoken offers its transaction to the pending pool only when
\* signrawtokentransaction found it complete.
C34_Original == MintAdmitCalled => mComplete

(***************************************************************************)
(* Properties of the amounts of createrawtransaction                       *)
(***************************************************************************)
\* The integer of a "data" pair <hex>:<integer> is a 64-bit value.
InInt64(s) ==
    LET t == Split(s.str)[2]
        neg == SubSeq(t, 1, 1) = "-"
        n == StripZeros(IF neg THEN SubSeq(t, 2, Len(t)) ELSE t)
    IN  IF neg THEN ~DecGreater(n, LLONG_MIN) ELSE ~DecGreater(n, LLONG_MAX)

\* C35: the output made for a "data" pair <hex>:<integer> with a 64-bit
\* integer has an amount that is not negative and is max(0, integer) times
\* the base unit, the product the integers have and not a wrapped one.
C35_Original ==
    \A k \in 1..Len(rawTx.vout) :
        (DataForm(sendTo[k]) /\ Len(Split(sendTo[k].str)) = 2 /\ InInt64(sendTo[k])) =>
            /\ ~rawTx.vout[k].nValue.neg
            /\ rawTx.vout[k].nValue = DataFormAmount(sendTo[k])

(***************************************************************************)
(* signrawtokentransaction against signrawtransaction                      *)
(***************************************************************************)
\* The request has ended, by a return, an error or a fault.
SignEnded == gPc \in {"done", "crashed"}

\* Every parameter the request has read is the one of a call with the
\* encoding alone: no private keys, no previous outputs, and no sighash
\* string or the string "ALL".
PlainCall ==
    /\ "keys" \in DOMAIN gParams => ~gParams["keys"].given
    /\ "prevTxs" \in DOMAIN gParams => ~gParams["prevTxs"].given
    /\ "sighash" \in DOMAIN gParams =>
          (~gParams["sighash"].given \/ gParams["sighash"].val = "ALL")

\* What a caller sees of the end of a signing call: the fault, the error, or
\* the transaction whose encoding is returned.
Seen(o) ==
    [crashed |-> o.crashed, error |-> o.error, message |-> o.message,
     returned |-> o.returned, tx |-> o.tx]

\* No variant has fewer inputs than the first.
NoShortVariant == \A v \in 1..Len(gRaw.txs) : Len(gRaw.txs[v].vin) >= Len(gRaw.txs[1].vin)

\* C36: a signrawtransaction call with the encoding alone ends as
\* signrawtokentransaction can end on the same encoding, wallet, pending pool
\* and confirmed coins: with the same error, or the same transaction.  When
\* no variant is shorter than the first, that end is the only one
\* signrawtokentransaction has.
C36_SameAsSign ==
    (SignEnded /\ PlainCall) =>
        \A wallet \in (IF "wallet" \in DOMAIN gParams THEN {gParams["wallet"]}
                       ELSE {"unlocked", "locked", "none"}) :
            LET ends == {Seen(o) : o \in SignRawTokenTransaction(gRaw, wallet,
                                                                 pcoinsTip, mempool)}
            IN  /\ Seen([crashed |-> gPc = "crashed"] @@ gResult) \in ends
                /\ NoShortVariant => Cardinality(ends) = 1

\* A call with the encoding of two variants alone returned a transaction
\* that holds a signature the first variant did not have.
C36_Witness ==
    /\ SignReturned
    /\ PlainCall
    /\ "sighash" \in DOMAIN gParams
    /\ Len(gRaw.txs) = 2
    /\ NoShortVariant
    /\ gResult.tx # gRaw.txs[1]
    /\ gResult.tx # gRaw.txs[2]
    /\ gResult.complete

(***************************************************************************)
(* Properties of the hints of signrawtransaction                           *)
(***************************************************************************)
\* What view v holds for output n of txid: the output, or the null output
\* when it holds none that is available.
OutputIn(v, txid, n) ==
    IF Cached(v, txid, n) THEN v.cacheCoins[txid].vout[n + 1] ELSE NullTxOut

\* The hints of params[1] applied so far, oldest first.
Applied ==
    IF "prevTxs" \in DOMAIN gParams /\ gParams["prevTxs"].given
    THEN SubSeq(gParams["prevTxs"].val, 1, Len(gParams["prevTxs"].val) - Len(prevTxs))
    ELSE <<>>

\* Applied hint k is the last one applied to the output the next hint names.
LastOnSameOutput(k) ==
    /\ Applied[k].txid = Head(prevTxs).txid
    /\ Applied[k].vout = Head(prevTxs).vout
    /\ \A j \in (k + 1)..Len(Applied) :
          ~(Applied[j].txid = Head(prevTxs).txid /\ Applied[j].vout = Head(prevTxs).vout)

\* C37: a step that applies a hint leaves what the view holds for every
\* other output of the hint's txid and for every output of every other txid
\* as it was.  A hint for an output to which a hint was applied before, with
\* the same script, leaves the view as it is, and passes when it is that
\* hint again; with another script it fails with the mismatch error.
C37_InjectFrame ==
    [][HintReady =>
          /\ \A txid \in DOMAIN view.cacheCoins \cup DOMAIN view'.cacheCoins :
                \A n \in 0..(Len(OutputsOf(1)) + 1) :
                    (txid # Head(prevTxs).txid \/ n # Head(prevTxs).vout) =>
                        OutputIn(view', txid, n) = OutputIn(view, txid, n)
          /\ \A k \in 1..Len(Applied) : LastOnSameOutput(k) =>
                IF Applied[k].scriptPubKey = Head(prevTxs).scriptPubKey
                THEN /\ view' = view
                     /\ ~MismatchThrown(gResult')
                     /\ Applied[k] = Head(prevTxs) => (gPc' = "hint" /\ gResult' = gResult)
                ELSE /\ gPc' = "done"
                     /\ MismatchThrown(gResult')
                     /\ view' = view]_vars

\* The same hint was applied twice and the request goes on.
C37_Witness ==
    /\ gPc = "hint"
    /\ prevTxs = <<>>
    /\ Len(Applied) = 2
    /\ Applied[1] = Applied[2]
    /\ OutputIn(view, Applied[1].txid, Applied[1].vout) = TxOut(0, Applied[1].scriptPubKey)

(***************************************************************************)
(* Properties of the failures of signrawtransaction                        *)
(***************************************************************************)
\* The step ends the request with an error.
SignFails == gPc # "done" /\ gPc' = "done" /\ ~gResult'.returned

\* The errors are raised before the loop: no input was passed and the merge
\* target, if made, is the first variant as decoded.
FailsBeforeLoop ==
    SignFails =>
        /\ gPc \in {"decode", "keys", "hint"}
        /\ nInput = 0
        /\ nHashType = 0
        /\ mergedTx = IF gPc = "decode" THEN EmptyTx ELSE gRaw.txs[1]
        /\ mergedTx' = mergedTx

\* From the first pass of the loop on the request stays in the loop or
\* returns the merge target and the flag.
LoopOnlyReturns ==
    gPc \in {"loop", "sign", "merge", "verify"} =>
        /\ gPc' \in {"loop", "sign", "merge", "verify", "done"}
        /\ gPc' = "done" => (gResult'.returned /\ gResult'.tx = mergedTx
                             /\ gResult'.complete = fComplete)

\* C38: every error of the request is raised before the per-input loop, with
\* no input cleared, signed or merged; once the loop has started the request
\* can only end by returning a transaction and a completeness flag.
C38_Original == [][FailsBeforeLoop /\ LoopOnlyReturns]_vars

\* Every error is raised before the loop.
ErrorsBeforeLoop == [][FailsBeforeLoop]_vars

====
